---- MODULE Spec2Model ----
(***************************************************************************)
(* Model of the validog query engine (src/index.js and its helpers in      *)
(* lib/validations.js and lib/utils.js).                                   *)
(*                                                                         *)
(* JavaScript values are tagged records [t |-> typeof, v |-> payload].     *)
(* A JavaScript string is a sequence of one-character strings, so that     *)
(* trim, toLowerCase, includes and charAt are computed, not assumed.       *)
(* A list of records returned by an operation is the sequence of the       *)
(* catalog positions of its records; null is position 0.                   *)
(***************************************************************************)
EXTENDS Integers, Sequences, FiniteSets, TLC

\* dogBreeds: the catalog; call, ret: the call observed and its outcome;
\* pc, frame: the statement a call being followed step by step is at, and
\* its local variables
VARIABLES dogBreeds, call, ret, pc, frame

vars == <<dogBreeds, call, ret, pc, frame>>

(***************************************************************************)
(* Bounds                                                                  *)
(***************************************************************************)
MaxCatalog == 3
MaxLen == 2
MaxDistance == 2
MaxWeight == 2

(***************************************************************************)
(* JavaScript values                                                       *)
(***************************************************************************)
Undefined == [t |-> "undefined", v |-> 0]
Str(s) == [t |-> "string", v |-> s]
Num(n) == [t |-> "number", v |-> n]
Bool(b) == [t |-> "boolean", v |-> b]
Obj(o) == [t |-> "object", v |-> o]
Null == [t |-> "null", v |-> 0]
Arr(a) == [t |-> "array", v |-> a]
\* typeof; typeof null and typeof an array are "object"
TypeOf(x) == IF x.t \in {"null", "array"} THEN "object" ELSE x.t

\* Strict equality of two values
StrictEquals(x, y) == x.t = y.t /\ x.v = y.v

\* JavaScript truthiness of a value ("" , 0, false and undefined are falsy)
Truthy(x) ==
    CASE x.t = "undefined" -> FALSE
      [] x.t = "string" -> x.v # <<>>
      [] x.t = "number" -> x.v # 0
      [] x.t = "boolean" -> x.v
      [] x.t = "null" -> FALSE
      [] OTHER -> TRUE

NULL == 0

\* Outcome of a call: a returned value or a thrown error
Return(x) == [kind |-> "return", value |-> x, error |-> "", message |-> ""]
Throw(e, m) == [kind |-> "throw", value |-> NULL, error |-> e, message |-> m]
Pass == [kind |-> "pass", value |-> NULL, error |-> "", message |-> ""]

(***************************************************************************)
(* String primitives                                                       *)
(***************************************************************************)
Whitespace == {" ", "\t", "\n"}

UpperCase == <<"A","B","C","D","E","F","G","H","I","J","K","L","M",
               "N","O","P","Q","R","S","T","U","V","W","X","Y","Z">>
LowerCase == <<"a","b","c","d","e","f","g","h","i","j","k","l","m",
               "n","o","p","q","r","s","t","u","v","w","x","y","z">>

toLowerCaseChar(c) ==
    IF \E i \in 1..26 : UpperCase[i] = c
    THEN LowerCase[CHOOSE i \in 1..26 : UpperCase[i] = c]
    ELSE c

toLowerCase(s) == [i \in 1..Len(s) |-> toLowerCaseChar(s[i])]

RECURSIVE trimStart(_)
trimStart(s) ==
    IF s # <<>> /\ Head(s) \in Whitespace THEN trimStart(Tail(s)) ELSE s

RECURSIVE trimEnd(_)
trimEnd(s) ==
    IF s # <<>> /\ s[Len(s)] \in Whitespace
    THEN trimEnd(SubSeq(s, 1, Len(s) - 1))
    ELSE s

trim(s) == trimEnd(trimStart(s))

\* String.prototype.includes: t occurs in s as a contiguous substring
includes(s, t) ==
    \E i \in 0..(Len(s) - Len(t)) : SubSeq(s, i + 1, i + Len(t)) = t

\* All strings of length lo..hi over the characters cs
RECURSIVE StringsOfLen(_, _)
StringsOfLen(cs, n) ==
    IF n = 0 THEN {<<>>}
    ELSE {Append(s, c) : s \in StringsOfLen(cs, n - 1), c \in cs}

Strings(cs, lo, hi) == UNION {StringsOfLen(cs, n) : n \in lo..hi}

(***************************************************************************)
(* lib/utils.js                                                            *)
(***************************************************************************)
Min2(x, y) == IF x <= y THEN x ELSE y
Max2(x, y) == IF x >= y THEN x ELSE y

\* Variant of levenshteinDistance whose substitution costs as much as a
\* deletion and an insertion
levenshteinDistance_noSubstitution(a, b) ==
    LET alen == Len(a)
        blen == Len(b)
        matrix[i \in 0..blen, j \in 0..alen] ==
            IF i = 0 THEN j
            ELSE IF j = 0 THEN i
            ELSE LET cost == IF b[i] = a[j] THEN 0 ELSE 2
                 IN  Min2(Min2(matrix[i - 1, j] + 1, matrix[i, j - 1] + 1),
                          matrix[i - 1, j - 1] + cost)
    IN  IF alen = 0 THEN blen
        ELSE IF blen = 0 THEN alen
        ELSE matrix[blen, alen]

\* Variant of levenshteinDistance whose first neighbour costs 2
levenshteinDistance_asymmetric(a, b) ==
    LET alen == Len(a)
        blen == Len(b)
        matrix[i \in 0..blen, j \in 0..alen] ==
            IF i = 0 THEN j
            ELSE IF j = 0 THEN i
            ELSE LET cost == IF b[i] = a[j] THEN 0 ELSE 1
                 IN  Min2(Min2(matrix[i - 1, j] + 2, matrix[i, j - 1] + 1),
                          matrix[i - 1, j - 1] + cost)
    IN  IF alen = 0 THEN blen
        ELSE IF blen = 0 THEN alen
        ELSE matrix[blen, alen]

levenshteinDistance(a, b) ==
    LET alen == Len(a)
        blen == Len(b)
        matrix[i \in 0..blen, j \in 0..alen] ==
            IF i = 0 THEN j
            ELSE IF j = 0 THEN i
            ELSE LET cost == IF b[i] = a[j] THEN 0 ELSE 1
                 IN  Min2(Min2(matrix[i - 1, j] + 1, matrix[i, j - 1] + 1),
                          matrix[i - 1, j - 1] + cost)
    IN  IF alen = 0 THEN blen
        ELSE IF blen = 0 THEN alen
        ELSE matrix[blen, alen]

Digits == <<"0", "1", "2", "3", "4", "5", "6", "7", "8", "9">>
IsDigit(c) == \E d \in 1..10 : Digits[d] = c
DigitValue(c) == (CHOOSE d \in 1..10 : Digits[d] = c) - 1
\* The hyphen, and the en dash and em dash (written by name)
Dashes == {"-", "en-dash", "em-dash"}

\* parseInt(s, 10) of a non-empty string of digits
RECURSIVE parseInt(_)
parseInt(s) ==
    IF s = <<>> THEN 0
    ELSE 10 * parseInt(SubSeq(s, 1, Len(s) - 1)) + DigitValue(s[Len(s)])

\* split('-') followed by filter(Boolean): the maximal runs of digits
RECURSIVE splitParts(_, _)
splitParts(s, current) ==
    IF s = <<>> THEN (IF current = <<>> THEN <<>> ELSE <<current>>)
    ELSE IF Head(s) = "-"
         THEN (IF current = <<>> THEN <<>> ELSE <<current>>)
                  \o splitParts(Tail(s), <<>>)
         ELSE splitParts(Tail(s), Append(current, Head(s)))

\* parseLifespanAverage: null, or the average as the fraction num / den
parseLifespanAverage(lifespan) ==
    LET keepChar(c) == IsDigit(c) \/ c \in Dashes
        cleaned == SelectSeq(lifespan.v, keepChar)
        normalized == [k \in 1..Len(cleaned) |->
                          IF cleaned[k] \in Dashes THEN "-" ELSE cleaned[k]]
        parts == splitParts(normalized, <<>>)
    IN  IF ~Truthy(lifespan) \/ TypeOf(lifespan) # "string" THEN Null
        ELSE IF Len(normalized) = 0 THEN Null
        ELSE IF Len(parts) = 1
             THEN Obj([num |-> parseInt(parts[1]), den |-> 1])
        ELSE IF Len(parts) >= 2
             THEN Obj([num |-> parseInt(parts[1]) + parseInt(parts[2]), den |-> 2])
        ELSE Null

(***************************************************************************)
(* lib/validations.js                                                      *)
(***************************************************************************)
\* Variant of validateNonEmptyString that does not trim
validateNonEmptyString_untrimmed(value, fieldName) ==
    IF TypeOf(value) # "string" \/ value.v = <<>>
    THEN Throw("NonEmptyStringError", fieldName)
    ELSE Pass

\* Throws NonEmptyStringError(fieldName), whose fieldName is kept as the
\* message
validateNonEmptyString(value, fieldName) ==
    IF TypeOf(value) # "string" \/ trim(value.v) = <<>>
    THEN Throw("NonEmptyStringError", fieldName)
    ELSE Pass

validateNumber(value, fieldName) ==
    IF TypeOf(value) # "number"
    THEN Throw("TypeError", fieldName \o " must be a number")
    ELSE Pass

\* Variant of validateNonNegativeNumber without the sign test
validateNonNegativeNumber_anySign(value, fieldName) ==
    validateNumber(value, fieldName)

validateNonNegativeNumber(value, fieldName) ==
    IF validateNumber(value, fieldName).kind = "throw"
    THEN validateNumber(value, fieldName)
    ELSE IF value.v < 0
         THEN Throw("TypeError", fieldName \o " must be a non-negative number")
         ELSE Pass

validateString(value, fieldName) ==
    IF TypeOf(value) # "string"
    THEN Throw("TypeError", fieldName \o " must be a string")
    ELSE Pass

UNIT_ALIASES ==
    [kgs |-> {<<"k","g">>, <<"k","g","s">>,
              <<"k","i","l","o","g","r","a","m">>,
              <<"k","i","l","o","g","r","a","m","s">>,
              <<"k","i","l","o">>, <<"k","i","l","o","s">>},
     lbs |-> {<<"l","b">>, <<"l","b","s">>, <<"p","o","u","n","d">>,
              <<"p","o","u","n","d","s">>}]

\* Variant of validateUnit that does not lower-case the unit
validateUnit_caseSensitive(unitArg) ==
    LET unit == IF TypeOf(unitArg) = "undefined" THEN Str(<<"l","b","s">>)
                ELSE unitArg
        normalized == trim(unit.v)
    IN  IF validateString(unit, "Unit").kind = "throw"
        THEN validateString(unit, "Unit")
        ELSE IF normalized \in UNIT_ALIASES.kgs THEN Return(<<"k","g","s">>)
        ELSE IF normalized \in UNIT_ALIASES.lbs THEN Return(<<"l","b","s">>)
        ELSE Throw("TypeError",
                   "Unit must be \"lbs\"/\"lb\"/\"pounds\"/\"pound\" or \"kgs\"/\"kg\"/\"kilograms\"/\"kilos\"")

\* validateUnit returns the normalized unit, or throws
validateUnit(unitArg) ==
    LET unit == IF TypeOf(unitArg) = "undefined" THEN Str(<<"l","b","s">>)
                ELSE unitArg
        normalized == trim(toLowerCase(unit.v))
    IN  IF validateString(unit, "Unit").kind = "throw"
        THEN validateString(unit, "Unit")
        ELSE IF normalized \in UNIT_ALIASES.kgs THEN Return(<<"k","g","s">>)
        ELSE IF normalized \in UNIT_ALIASES.lbs THEN Return(<<"l","b","s">>)
        ELSE Throw("TypeError",
                   "Unit must be \"lbs\"/\"lb\"/\"pounds\"/\"pound\" or \"kgs\"/\"kg\"/\"kilograms\"/\"kilos\"")

validateNumberRange(min, max) ==
    IF validateNumber(min, "Min weight").kind = "throw"
    THEN validateNumber(min, "Min weight")
    ELSE validateNumber(max, "Max weight")

validateBoolean(value, fieldName) ==
    IF TypeOf(value) # "boolean"
    THEN Throw("TypeError", fieldName \o " must be a boolean")
    ELSE Pass

\* The valid keys, as JavaScript strings
VALID_COMPATIBILITY_KEYS ==
    [children |-> <<"c","h","i","l","d","r","e","n">>,
     otherDogs |-> <<"o","t","h","e","r","D","o","g","s">>,
     cats |-> <<"c","a","t","s">>]

\* VALID_COMPATIBILITY_KEYS.includes(value) compares with strict equality
validateCompatibilityKey(value) ==
    IF \E k \in DOMAIN VALID_COMPATIBILITY_KEYS :
           StrictEquals(value, Str(VALID_COMPATIBILITY_KEYS[k]))
    THEN Pass
    ELSE Throw("TypeError",
               "Compatibility key must be one of: children, otherDogs, cats")

(***************************************************************************)
(* index.js                                                                *)
(***************************************************************************)
\* normalizeBreed on a value already known to be a string
normalizeBreed(breed) == toLowerCase(trim(breed))

\* Array.prototype.filter over the catalog: the positions satisfying P, in
\* catalog order
positions == [i \in 1..Len(dogBreeds) |-> i]

filter(P(_)) == SelectSeq(positions, P)

\* Array.prototype.sort with the comparator (a, b) => a._matchScore -
\* b._matchScore; the sort is stable
\* Variant of sortByMatchScore with the comparator reversed (b - a)
sortByMatchScore_descending(xs) ==
    LET RECURSIVE srt(_)
        srt(ys) ==
            IF ys = <<>> THEN <<>>
            ELSE LET front == srt(SubSeq(ys, 1, Len(ys) - 1))
                     y == ys[Len(ys)]
                     keep == {k \in 1..Len(front) :
                                 front[k]._matchScore >= y._matchScore}
                     n == Cardinality(keep)
                 IN  SubSeq(front, 1, n) \o <<y>> \o SubSeq(front, n + 1, Len(front))
    IN  srt(xs)

RECURSIVE sortByMatchScore(_)
sortByMatchScore(xs) ==
    IF xs = <<>> THEN <<>>
    ELSE LET front == sortByMatchScore(SubSeq(xs, 1, Len(xs) - 1))
             x == xs[Len(xs)]
             keep == {k \in 1..Len(front) : front[k]._matchScore <= x._matchScore}
             n == Cardinality(keep)
         IN  SubSeq(front, 1, n) \o <<x>> \o SubSeq(front, n + 1, Len(front))

DefaultMaxDistance == 2

\* Bidirectional containment of two normalized strings
isPartialMatch(dogName, normalized) ==
    includes(dogName, normalized) \/ includes(normalized, dogName)

\* First pass: the substring matches, in catalog order
substringPass(normalized) ==
    LET isSubstring(i) ==
            isPartialMatch(normalizeBreed(dogBreeds[i].name.v), normalized)
    IN  filter(isSubstring)

\* Variant of fuzzyPass that keeps distances up to maxDistance + 1
fuzzyPass_offByOne(normalized, maxDistance) ==
    LET dogName(i) == normalizeBreed(dogBreeds[i].name.v)
        isFuzzy(i) ==
            IF isPartialMatch(dogName(i), normalized) THEN FALSE
            ELSE levenshteinDistance(normalized, dogName(i)) <= maxDistance + 1
        kept == filter(isFuzzy)
    IN  [k \in 1..Len(kept) |->
            [dog |-> kept[k],
             _matchScore |-> levenshteinDistance(normalized, dogName(kept[k]))]]

\* Variant of fuzzyPass that does not skip the substring matches
fuzzyPass_overlapping(normalized, maxDistance) ==
    LET dogName(i) == normalizeBreed(dogBreeds[i].name.v)
        isFuzzy(i) == levenshteinDistance(normalized, dogName(i)) <= maxDistance
        kept == filter(isFuzzy)
    IN  [k \in 1..Len(kept) |->
            [dog |-> kept[k],
             _matchScore |-> levenshteinDistance(normalized, dogName(kept[k]))]]

\* Variant of fuzzyPass that keeps only the distance maxDistance itself
fuzzyPass_exactDistance(normalized, maxDistance) ==
    LET dogName(i) == normalizeBreed(dogBreeds[i].name.v)
        isFuzzy(i) ==
            IF isPartialMatch(dogName(i), normalized) THEN FALSE
            ELSE levenshteinDistance(normalized, dogName(i)) = maxDistance
        kept == filter(isFuzzy)
    IN  [k \in 1..Len(kept) |->
            [dog |-> kept[k],
             _matchScore |-> levenshteinDistance(normalized, dogName(kept[k]))]]

\* Second pass: the records that are no substring match and lie within
\* maxDistance, each with its _matchScore, in catalog order
fuzzyPass(normalized, maxDistance) ==
    LET dogName(i) == normalizeBreed(dogBreeds[i].name.v)
        isFuzzy(i) ==
            IF isPartialMatch(dogName(i), normalized) THEN FALSE
            ELSE levenshteinDistance(normalized, dogName(i)) <= maxDistance
        kept == filter(isFuzzy)
    IN  [k \in 1..Len(kept) |->
            [dog |-> kept[k],
             _matchScore |-> levenshteinDistance(normalized, dogName(kept[k]))]]

fuzzySearchBreeds(searchTerm, maxDistanceArg) ==
    LET maxDistance == IF TypeOf(maxDistanceArg) = "undefined"
                       THEN Num(DefaultMaxDistance) ELSE maxDistanceArg
        v1 == validateNonEmptyString(searchTerm, "Search term")
        v2 == validateNonNegativeNumber(maxDistance, "maxDistance")
        normalized == normalizeBreed(searchTerm.v)
        substringMatches == substringPass(normalized)
        fuzzyMatches == sortByMatchScore(fuzzyPass(normalized, maxDistance.v))
    IN  IF v1.kind = "throw" THEN v1
        ELSE IF v2.kind = "throw" THEN v2
        ELSE IF \E i \in 1..Len(dogBreeds) :
                    \/ TypeOf(dogBreeds[i]) # "object"
                    \/ TypeOf(dogBreeds[i].name) # "string"
             THEN Throw("TypeError", "Breed name must be a string")
        ELSE Return(substringMatches
                    \o [k \in 1..Len(fuzzyMatches) |-> fuzzyMatches[k].dog])

DefaultLang == <<"e", "n">>

\* dog.names[lang]: undefined when the record has no names object or no
\* entry for lang
namesEntry(dog, lang) ==
    IF TypeOf(dog) = "object" /\ TypeOf(dog.names) = "object"
       /\ lang \in DOMAIN dog.names.v
    THEN dog.names.v[lang]
    ELSE Undefined

\* Variant of comparisonName that ignores the names object
comparisonName_nameOnly(dog, lang) ==
    IF TypeOf(dog) = "string" THEN dog ELSE dog.name

\* The name findBreed compares with the query: a catalog entry is a bare
\* string or a record; names[lang] replaces the name when it is truthy
comparisonName(dog, lang) ==
    LET name == IF TypeOf(dog) = "string" THEN dog ELSE dog.name
    IN  IF Truthy(namesEntry(dog, lang)) THEN namesEntry(dog, lang) ELSE name

\* Variant of matchesBreed that ignores the fuzzy option
matchesBreed_alwaysFuzzy(dog, normalized, fuzzy, lang) ==
    LET name == IF TypeOf(dog) = "string" THEN dog ELSE dog.name
        normName == normalizeBreed(comparisonName(dog, lang).v)
    IN  IF TypeOf(name) # "string" THEN FALSE
        ELSE includes(normName, normalized) \/ includes(normalized, normName)

\* Variant of matchesBreed whose fuzzy mode compares the name of the record
\* and not its comparison name
matchesBreed_fuzzyOnName(dog, normalized, fuzzy, lang) ==
    LET name == IF TypeOf(dog) = "string" THEN dog ELSE dog.name
        normName == normalizeBreed(comparisonName(dog, lang).v)
    IN  IF TypeOf(name) # "string" THEN FALSE
        ELSE IF Truthy(fuzzy)
             THEN \/ includes(normalizeBreed(name.v), normalized)
                  \/ includes(normalized, normalizeBreed(name.v))
             ELSE normName = normalized

\* The predicate findBreed passes to Array.prototype.find
matchesBreed(dog, normalized, fuzzy, lang) ==
    LET name == IF TypeOf(dog) = "string" THEN dog ELSE dog.name
        normName == normalizeBreed(comparisonName(dog, lang).v)
    IN  IF TypeOf(name) # "string" THEN FALSE
        ELSE IF Truthy(fuzzy)
             THEN includes(normName, normalized) \/ includes(normalized, normName)
             ELSE normName = normalized

\* Variant of findBreed that returns the last match (findLast)
findBreed_last(breed, options) ==
    LET fuzzy == IF TypeOf(options.fuzzy) = "undefined" THEN Bool(TRUE)
                 ELSE options.fuzzy
        lang == IF TypeOf(options.lang) = "undefined" THEN DefaultLang
                ELSE options.lang.v
        normalized == normalizeBreed(breed.v)
        hits == {i \in 1..Len(dogBreeds) :
                    matchesBreed(dogBreeds[i], normalized, fuzzy, lang)}
    IN  IF hits = {} THEN NULL
        ELSE CHOOSE i \in hits : \A j \in hits : j <= i

\* Array.prototype.find with the predicate of findBreed, scanning from
\* position i
RECURSIVE findFrom(_, _, _, _)
findFrom(i, normalized, fuzzy, lang) ==
    IF i > Len(dogBreeds) THEN NULL
    ELSE IF matchesBreed(dogBreeds[i], normalized, fuzzy, lang) THEN i
    ELSE findFrom(i + 1, normalized, fuzzy, lang)

\* findBreed: the position of the first catalog entry that matches, or null
findBreed(breed, options) ==
    LET fuzzy == IF TypeOf(options.fuzzy) = "undefined" THEN Bool(TRUE)
                 ELSE options.fuzzy
        lang == IF TypeOf(options.lang) = "undefined" THEN DefaultLang
                ELSE options.lang.v
        normalized == normalizeBreed(breed.v)
    IN  findFrom(1, normalized, fuzzy, lang)

getDogBreedData(breed, options) ==
    LET v1 == validateNonEmptyString(breed, "Breed name")
    IN  IF v1.kind = "throw" THEN v1
        ELSE Return(findBreed(breed, options))

\* dog.weight of a catalog entry (a bare string has no properties)
weightOf(dog) == IF TypeOf(dog) = "object" THEN dog.weight ELSE Undefined

\* Variant of inWeightRange with <= and >= in place of < and >
inWeightRange_exclusive(dog, normalizedUnit, sortedMin, sortedMax) ==
    LET weightData == IF normalizedUnit = <<"k","g","s">>
                      THEN weightOf(dog).v.kgs ELSE weightOf(dog).v.lbs
    IN  IF ~Truthy(weightOf(dog)) THEN FALSE
        ELSE IF ~Truthy(weightData) THEN FALSE
        ELSE ~(weightData.v.max <= sortedMin \/ weightData.v.min >= sortedMax)

\* The predicate getDogsByWeightRange passes to Array.prototype.filter
inWeightRange(dog, normalizedUnit, sortedMin, sortedMax) ==
    LET weightData == IF normalizedUnit = <<"k","g","s">>
                      THEN weightOf(dog).v.kgs ELSE weightOf(dog).v.lbs
    IN  IF ~Truthy(weightOf(dog)) THEN FALSE
        ELSE IF ~Truthy(weightData) THEN FALSE
        ELSE ~(weightData.v.max < sortedMin \/ weightData.v.min > sortedMax)

\* Variant of getDogsByWeightRange that does not sort min and max
getDogsByWeightRange_unsorted(min, max, unit) ==
    LET v1 == validateNumberRange(min, max)
        normalizedUnit == validateUnit(unit)
        inRange(i) == inWeightRange(dogBreeds[i], normalizedUnit.value, min.v, max.v)
    IN  IF v1.kind = "throw" THEN v1
        ELSE IF normalizedUnit.kind = "throw" THEN normalizedUnit
        ELSE Return(filter(inRange))

getDogsByWeightRange(min, max, unit) ==
    LET v1 == validateNumberRange(min, max)
        sortedMin == Min2(min.v, max.v)
        sortedMax == Max2(min.v, max.v)
        normalizedUnit == validateUnit(unit)
        inRange(i) == inWeightRange(dogBreeds[i], normalizedUnit.value,
                                    sortedMin, sortedMax)
    IN  IF v1.kind = "throw" THEN v1
        ELSE IF normalizedUnit.kind = "throw" THEN normalizedUnit
        ELSE Return(filter(inRange))

DefaultMinLifespan == 0

\* A property of a catalog entry (a bare string has no properties)
field(dog, name) ==
    IF TypeOf(dog) # "object" THEN Undefined
    ELSE CASE name = "size" -> dog.size
           [] name = "energyLevel" -> dog.energyLevel
           [] name = "trainability" -> dog.trainability
           [] name = "shedding" -> dog.shedding
           [] name = "groomingNeeds" -> dog.groomingNeeds
           [] name = "origin" -> dog.origin
           [] name = "compatibility" -> dog.compatibility
           [] name = "lifespan" -> dog.lifespan

\* x < y on numbers; a comparison with undefined is false
LessThan(x, y) == x.t = "number" /\ y.t = "number" /\ x.v < y.v

\* Variant of scalarMatches that compares after trimming and case-folding
scalarMatches_normalized(dog, name, wanted) ==
    ~(/\ Truthy(wanted)
      /\ ~(/\ TypeOf(field(dog, name)) = "string"
           /\ toLowerCase(trim(field(dog, name).v)) = toLowerCase(trim(wanted.v))))

\* if (size && dog.size !== size) return false, for one scalar criterion
scalarMatches(dog, name, wanted) ==
    ~(Truthy(wanted) /\ ~StrictEquals(field(dog, name), wanted))

\* The compatibility block of the filter
compatible(dog, compatibility) ==
    LET dc == field(dog, "compatibility")
        flag(wanted, stored) ==
            ~(TypeOf(wanted) = "boolean" /\ ~StrictEquals(stored, wanted))
    IN  IF ~Truthy(compatibility) THEN TRUE
        ELSE IF ~Truthy(dc) THEN FALSE
        ELSE /\ flag(compatibility.v.children, dc.v.children)
             /\ flag(compatibility.v.otherDogs, dc.v.otherDogs)
             /\ flag(compatibility.v.cats, dc.v.cats)

\* Variant of weighs that rejects every record without weight data
weighs_weightRequired(dog, weightRange) ==
    LET unit == IF Truthy(weightRange.v.unit) THEN weightRange.v.unit.v
                ELSE <<"l","b","s">>
        weightData == IF unit = <<"k","g","s">>
                      THEN weightOf(dog).v.kgs ELSE weightOf(dog).v.lbs
    IN  IF Truthy(weightRange) /\ Truthy(weightOf(dog))
        THEN IF ~Truthy(weightData) THEN FALSE
             ELSE ~(\/ LessThan(Num(weightData.v.max), weightRange.v.min)
                    \/ LessThan(weightRange.v.max, Num(weightData.v.min)))
        ELSE FALSE

\* Variant of weighs that asks the record range to lie inside the query range
weighs_containment(dog, weightRange) ==
    LET unit == IF Truthy(weightRange.v.unit) THEN weightRange.v.unit.v
                ELSE <<"l","b","s">>
        weightData == IF unit = <<"k","g","s">>
                      THEN weightOf(dog).v.kgs ELSE weightOf(dog).v.lbs
    IN  IF Truthy(weightRange) /\ Truthy(weightOf(dog))
        THEN IF ~Truthy(weightData) THEN FALSE
             ELSE ~(\/ LessThan(Num(weightData.v.min), weightRange.v.min)
                    \/ LessThan(weightRange.v.max, Num(weightData.v.max)))
        ELSE ~Truthy(weightRange)

\* The weightRange block of the filter
weighs(dog, weightRange) ==
    LET unit == IF Truthy(weightRange.v.unit) THEN weightRange.v.unit.v
                ELSE <<"l","b","s">>
        weightData == IF unit = <<"k","g","s">>
                      THEN weightOf(dog).v.kgs ELSE weightOf(dog).v.lbs
    IN  IF Truthy(weightRange) /\ Truthy(weightOf(dog))
        THEN IF ~Truthy(weightData) THEN FALSE
             ELSE ~(\/ LessThan(Num(weightData.v.max), weightRange.v.min)
                    \/ LessThan(weightRange.v.max, Num(weightData.v.min)))
        ELSE ~Truthy(weightRange)

\* The minLifespan block of the filter
lives(dog, minLifespan) ==
    LET avgLifespan == parseLifespanAverage(field(dog, "lifespan"))
    IN  IF minLifespan.v > 0 /\ Truthy(field(dog, "lifespan"))
        THEN ~(/\ avgLifespan.t # "null"
               /\ avgLifespan.v.num < minLifespan.v * avgLifespan.v.den)
        ELSE ~(minLifespan.v > 0)

\* Variant of recommends that rejects every record without weight data
recommends_weightRequired(dog, p) ==
    /\ scalarMatches(dog, "size", p.size)
    /\ scalarMatches(dog, "energyLevel", p.energyLevel)
    /\ scalarMatches(dog, "trainability", p.trainability)
    /\ scalarMatches(dog, "shedding", p.shedding)
    /\ scalarMatches(dog, "groomingNeeds", p.groomingNeeds)
    /\ scalarMatches(dog, "origin", p.origin)
    /\ compatible(dog, p.compatibility)
    /\ weighs_weightRequired(dog, p.weightRange)
    /\ lives(dog, p.minLifespan)

\* The predicate getRecommendedBreeds passes to Array.prototype.filter; p
\* is the destructured preferences
recommends(dog, p) ==
    /\ scalarMatches(dog, "size", p.size)
    /\ scalarMatches(dog, "energyLevel", p.energyLevel)
    /\ scalarMatches(dog, "trainability", p.trainability)
    /\ scalarMatches(dog, "shedding", p.shedding)
    /\ scalarMatches(dog, "groomingNeeds", p.groomingNeeds)
    /\ scalarMatches(dog, "origin", p.origin)
    /\ compatible(dog, p.compatibility)
    /\ weighs(dog, p.weightRange)
    /\ lives(dog, p.minLifespan)

\* The preferences object with no property set
EmptyPreferences ==
    [size |-> Undefined, energyLevel |-> Undefined, trainability |-> Undefined,
     shedding |-> Undefined, groomingNeeds |-> Undefined, origin |-> Undefined,
     compatibility |-> Undefined, weightRange |-> Undefined,
     minLifespan |-> Undefined]

getRecommendedBreeds(preferencesArg) ==
    LET preferences == IF TypeOf(preferencesArg) = "undefined"
                       THEN Obj(EmptyPreferences) ELSE preferencesArg
        \* destructuring a primitive yields undefined for every property
        d == IF preferences.t = "object" THEN preferences.v ELSE EmptyPreferences
        p == [d EXCEPT !.minLifespan =
                 IF TypeOf(d.minLifespan) = "undefined"
                 THEN Num(DefaultMinLifespan) ELSE d.minLifespan]
        keep(i) == recommends(dogBreeds[i], p)
    IN  IF preferences.t = "null"
        THEN Throw("TypeError", "Cannot destructure null")
        ELSE IF TypeOf(preferences) # "object"
        THEN Throw("TypeError", "Preferences must be an object")
        ELSE Return(filter(keep))

\* options = {} of isValidDogBreed and getDogBreedOrigin
NoOptions == [fuzzy |-> Undefined, lang |-> Undefined]

isValidDogBreed(breed, options) ==
    LET v1 == validateNonEmptyString(breed, "Breed name")
    IN  IF v1.kind = "throw" THEN v1
        ELSE Return(Bool(findBreed(breed, options) # NULL))

\* Variant of getDogBreedOrigin that throws when no record is found
getDogBreedOrigin_throwing(breed, options) ==
    LET v1 == validateNonEmptyString(breed, "Breed name")
        found == findBreed(breed, options)
        origin == field(dogBreeds[found], "origin")
    IN  IF v1.kind = "throw" THEN v1
        ELSE IF found = NULL \/ ~Truthy(dogBreeds[found])
        THEN Throw("Error", "Breed not found")
        ELSE Return(IF Truthy(origin) THEN origin ELSE Null)

getDogBreedOrigin(breed, options) ==
    LET v1 == validateNonEmptyString(breed, "Breed name")
        found == findBreed(breed, options)
        origin == field(dogBreeds[found], "origin")
    IN  IF v1.kind = "throw" THEN v1
        ELSE IF found = NULL \/ ~Truthy(dogBreeds[found]) THEN Return(Null)
        ELSE Return(IF Truthy(origin) THEN origin ELSE Null)

\* The predicate getDogsByCountry passes to Array.prototype.filter
fromCountry(dog, normalized) ==
    LET origin == field(dog, "origin")
    IN  IF TypeOf(origin) # "string" THEN FALSE
        ELSE \/ includes(normalizeBreed(origin.v), normalized)
             \/ includes(normalized, normalizeBreed(origin.v))

getDogsByCountry(country) ==
    LET v1 == validateNonEmptyString(country, "Country")
        keep(i) == fromCountry(dogBreeds[i], normalizeBreed(country.v))
    IN  IF v1.kind = "throw" THEN v1 ELSE Return(filter(keep))

\* The predicate getDogsBySize, getDogsByEnergyLevel, getDogsByTrainability,
\* getDogsByShedding and getDogsByGroomingNeeds pass to filter, each for
\* its own property
\* Variant of hasNormalized that accepts containment either way
hasNormalized_partial(dog, name, normalized) ==
    IF TypeOf(field(dog, name)) # "string" THEN FALSE
    ELSE \/ includes(normalizeBreed(field(dog, name).v), normalized)
         \/ includes(normalized, normalizeBreed(field(dog, name).v))

hasNormalized(dog, name, normalized) ==
    IF TypeOf(field(dog, name)) # "string" THEN FALSE
    ELSE normalizeBreed(field(dog, name).v) = normalized

getDogsBySize(size) ==
    LET v1 == validateNonEmptyString(size, "Size")
        keep(i) == hasNormalized(dogBreeds[i], "size", normalizeBreed(size.v))
    IN  IF v1.kind = "throw" THEN v1 ELSE Return(filter(keep))

\* dog.temperament.some(t => normalizeBreed(t) === normalized); the traits
\* of a record are strings
hasTrait(dog, normalized) ==
    LET temperament == IF dog.t = "object" THEN dog.temperament ELSE Undefined
    IN  IF temperament.t # "array" THEN FALSE
        ELSE \E k \in DOMAIN temperament.v :
                 normalizeBreed(temperament.v[k].v) = normalized

getDogsByTemperament(trait) ==
    LET v1 == validateNonEmptyString(trait, "Temperament trait")
        keep(i) == hasTrait(dogBreeds[i], normalizeBreed(trait.v))
    IN  IF v1.kind = "throw" THEN v1 ELSE Return(filter(keep))

getDogsByEnergyLevel(level) ==
    LET v1 == validateNonEmptyString(level, "Energy level")
        keep(i) == hasNormalized(dogBreeds[i], "energyLevel", normalizeBreed(level.v))
    IN  IF v1.kind = "throw" THEN v1 ELSE Return(filter(keep))

getDogsByTrainability(level) ==
    LET v1 == validateNonEmptyString(level, "Trainability level")
        keep(i) == hasNormalized(dogBreeds[i], "trainability", normalizeBreed(level.v))
    IN  IF v1.kind = "throw" THEN v1 ELSE Return(filter(keep))

getDogsByShedding(level) ==
    LET v1 == validateNonEmptyString(level, "Shedding level")
        keep(i) == hasNormalized(dogBreeds[i], "shedding", normalizeBreed(level.v))
    IN  IF v1.kind = "throw" THEN v1 ELSE Return(filter(keep))

getDogsByGroomingNeeds(level) ==
    LET v1 == validateNonEmptyString(level, "Grooming needs level")
        keep(i) == hasNormalized(dogBreeds[i], "groomingNeeds", normalizeBreed(level.v))
    IN  IF v1.kind = "throw" THEN v1 ELSE Return(filter(keep))

\* The predicate getDogsByCompatibility passes to filter; key is valid
hasCompatibility(dog, key, value) ==
    LET compatibility == field(dog, "compatibility")
        property == CHOOSE k \in DOMAIN VALID_COMPATIBILITY_KEYS :
                        VALID_COMPATIBILITY_KEYS[k] = key.v
    IN  IF ~Truthy(compatibility) \/ TypeOf(compatibility) # "object" THEN FALSE
        ELSE StrictEquals(compatibility.v[property], value)

getDogsByCompatibility(key, value) ==
    LET v1 == validateCompatibilityKey(key)
        v2 == validateBoolean(value, "Compatibility value")
        keep(i) == hasCompatibility(dogBreeds[i], key, value)
    IN  IF v1.kind = "throw" THEN v1
        ELSE IF v2.kind = "throw" THEN v2
        ELSE Return(filter(keep))

\* A string of the model as message text
RECURSIVE Text(_)
Text(s) == IF s = <<>> THEN "" ELSE Head(s) \o Text(Tail(s))

\* new Error(`Breed "${breed}" not found`)
NotFound(breed) == Throw("Error", "Breed \"" \o Text(breed.v) \o "\" not found")

\* x || false
OrFalse(x) == IF Truthy(x) THEN x ELSE Bool(FALSE)

\* dog.compatibility?.[key]
optionalFlag(dog, key) ==
    IF field(dog, "compatibility").t \in {"undefined", "null"} THEN Undefined
    ELSE field(dog, "compatibility").v[key]

\* One entry of the comparison: both values and whether they are strictly
\* equal
compared(dog1, dog2, name) ==
    [breed1 |-> field(dog1, name), breed2 |-> field(dog2, name),
     match |-> StrictEquals(field(dog1, name), field(dog2, name))]

\* One compatibility entry of the comparison
comparedFlag(dog1, dog2, key) ==
    [breed1 |-> OrFalse(optionalFlag(dog1, key)),
     breed2 |-> OrFalse(optionalFlag(dog2, key)),
     match |-> StrictEquals(optionalFlag(dog1, key), optionalFlag(dog2, key))]

\* The object compareBreeds returns for two catalog positions
comparisonOf(i1, i2) ==
    LET dog1 == dogBreeds[i1]
        dog2 == dogBreeds[i2]
    IN  [breed1 |-> i1,
         breed2 |-> i2,
         comparison |->
             [size |-> compared(dog1, dog2, "size"),
              energyLevel |-> compared(dog1, dog2, "energyLevel"),
              trainability |-> compared(dog1, dog2, "trainability"),
              shedding |-> compared(dog1, dog2, "shedding"),
              lifespan |-> compared(dog1, dog2, "lifespan"),
              groomingNeeds |-> compared(dog1, dog2, "groomingNeeds"),
              origin |-> compared(dog1, dog2, "origin"),
              compatibility |->
                  [breed1 |-> field(dog1, "compatibility"),
                   breed2 |-> field(dog2, "compatibility"),
                   children |-> comparedFlag(dog1, dog2, "children"),
                   otherDogs |-> comparedFlag(dog1, dog2, "otherDogs"),
                   cats |-> comparedFlag(dog1, dog2, "cats")],
              weight |-> [breed1 |-> weightOf(dog1), breed2 |-> weightOf(dog2)]]]

\* { fuzzy: true }
FuzzyOptions == [fuzzy |-> Bool(TRUE), lang |-> Undefined]

\* !dog: no entry was found, or the entry found is the empty string
missing(found) == found = NULL \/ ~Truthy(dogBreeds[found])

compareBreeds(breed1, breed2) ==
    LET v1 == validateNonEmptyString(breed1, "Breed 1")
        v2 == validateNonEmptyString(breed2, "Breed 2")
        dog1 == getDogBreedData(breed1, FuzzyOptions).value
        dog2 == getDogBreedData(breed2, FuzzyOptions).value
    IN  IF v1.kind = "throw" THEN v1
        ELSE IF v2.kind = "throw" THEN v2
        ELSE IF missing(dog1) THEN NotFound(breed1)
        ELSE IF missing(dog2) THEN NotFound(breed2)
        ELSE Return(comparisonOf(dog1, dog2))

(***************************************************************************)
(* Catalog records (dogs.json)                                             *)
(***************************************************************************)
NoCall == [op |-> "none", args |-> <<>>]

\* The local variables of a call before its first statement: no record
\* examined, nothing kept, no statement executed
NoFrame ==
    [dog1 |-> NULL, dog2 |-> NULL, unit |-> <<>>, i |-> 0, kept |-> <<>>,
     examined |-> 0, steps |-> <<>>]

Breed(name) ==
    [t |-> "object", name |-> Str(name), names |-> Undefined, origin |-> Str(<<"x">>),
     size |-> Str(<<"s">>), energyLevel |-> Str(<<"l">>),
     trainability |-> Str(<<"l">>), shedding |-> Str(<<"m">>),
     groomingNeeds |-> Str(<<"l">>), lifespan |-> Str(<<"1", "-", "3">>),
     compatibility |-> Undefined, weight |-> Undefined,
     temperament |-> Undefined]

\* Catalogs of 1..MaxCatalog records drawn from a pool of records
Catalogs(pool) == UNION {[1..n -> pool] : n \in 1..MaxCatalog}

(***************************************************************************)
(* Fuzzy search                                                            *)
(***************************************************************************)
TermChars == {"a", "B"}

\* A string with a blank before and after it
Padded(s) == <<" ">> \o s \o <<" ">>

\* Stored names, with capitals and blanks that normalization removes
SearchNames ==
    {<<"a", " ">>, <<"B">>, <<"a", "B", "a">>, <<"B", "a">>, <<"B", "B">>}

SearchPool == {Breed(n) : n \in SearchNames}

SearchTerms ==
    {Str(s) : s \in Strings(TermChars, 0, MaxLen)}
        \cup {Str(Padded(s)) : s \in Strings(TermChars, 0, 1)}
        \cup {Undefined}

MaxDistances == {Num(d) : d \in (-1)..MaxDistance} \cup {Undefined, Str(<<"a">>)}

InitSearch ==
    /\ dogBreeds \in Catalogs(SearchPool)
    /\ call = NoCall
    /\ ret = Pass
    /\ pc = "idle"
    /\ frame = NoFrame

\* Every operation is a synchronous pure read of the immutable catalog and
\* keeps nothing between calls, so a behaviour observes one call: call and
\* ret record that call and its outcome.
Idle == call.op = "none"

CallFuzzySearchBreeds ==
    \E searchTerm \in SearchTerms, maxDistance \in MaxDistances :
        /\ Idle
        /\ call' = [op |-> "fuzzySearchBreeds", args |-> <<searchTerm, maxDistance>>]
        /\ ret' = fuzzySearchBreeds(searchTerm, maxDistance)
        /\ UNCHANGED <<dogBreeds, pc, frame>>

NextSearch == CallFuzzySearchBreeds

SpecSearch == InitSearch /\ [][NextSearch]_vars
(***************************************************************************)
(* Single-record lookup                                                    *)
(***************************************************************************)
MaxFindCatalog == 2
MaxQueryLen == 2

Langs == {<<"e", "n">>, <<"f", "r">>}

Names(f) == Obj(f)

FindNames == {<<"a">>, <<"a", "B">>}

FindNamesObjects ==
    {Undefined,
     Names([l \in {<<"e", "n">>} |-> Str(<<"B">>)]),
     Names([l \in {<<"f", "r">>} |-> Str(<<"B">>)]),
     Names([l \in {<<"f", "r">>} |-> Str(<<>>)]),
     Names([l \in Langs |-> IF l = <<"e", "n">> THEN Str(<<>>) ELSE Str(<<"B", " ">>)])}

FindPool ==
    {[Breed(n) EXCEPT !.names = o] : n \in FindNames, o \in FindNamesObjects}
        \cup {Str(<<"B">>)}

FindCatalogs == UNION {[1..n -> FindPool] : n \in 1..MaxFindCatalog}

Queries ==
    {Str(s) : s \in Strings(TermChars, 0, MaxQueryLen)}
        \cup {Str(Padded(s)) : s \in Strings(TermChars, 0, 1)}
        \cup {Undefined}

FindOptions ==
    [fuzzy : {Undefined, Bool(TRUE), Bool(FALSE)},
     lang : {Undefined} \cup {Str(l) : l \in Langs}]

InitFind ==
    /\ dogBreeds \in FindCatalogs
    /\ call = NoCall
    /\ ret = Pass
    /\ pc = "idle"
    /\ frame = NoFrame

CallGetDogBreedData ==
    \E breed \in Queries, options \in FindOptions :
        /\ Idle
        /\ call' = [op |-> "getDogBreedData", args |-> <<breed, options>>]
        /\ ret' = getDogBreedData(breed, options)
        /\ UNCHANGED <<dogBreeds, pc, frame>>

NextFind == CallGetDogBreedData

SpecFind == InitFind /\ [][NextFind]_vars

(***************************************************************************)
(* Weight range filter                                                     *)
(***************************************************************************)
MaxWeightCatalog == 2

WeightData(lo, hi) == Obj([min |-> lo, max |-> hi])
Weight(lbs, kgs) == Obj([lbs |-> lbs, kgs |-> kgs])

\* Stored ranges satisfy min <= max: the one-point ranges, a range of
\* width 1 and the widest range
WeightRanges ==
    {<<w, w>> : w \in 0..MaxWeight} \cup {<<0, 1>>, <<0, MaxWeight>>}

WeightValues ==
    {Undefined}
        \cup {Weight(WeightData(r[1], r[2]),
                     WeightData(MaxWeight - r[2], MaxWeight - r[1])) :
                 r \in WeightRanges}
        \cup {Weight(WeightData(0, 1), Undefined),
              Weight(Undefined, WeightData(0, 1))}

WeightPool == {[Breed(<<"a">>) EXCEPT !.weight = w] : w \in WeightValues}

WeightCatalogs == UNION {[1..n -> WeightPool] : n \in 1..MaxWeightCatalog}

WeightArgs == {Num(n) : n \in 0..MaxWeight} \cup {Undefined}

UnitArgs ==
    {Str(u) : u \in UNIT_ALIASES.kgs \cup UNIT_ALIASES.lbs}
        \cup {Undefined, Num(1), Str(<<"K","G"," ">>),
              Str(<<" ","P","o","u","n","d","s">>), Str(<<"g">>)}

InitWeight ==
    /\ dogBreeds \in WeightCatalogs
    /\ call = NoCall
    /\ ret = Pass
    /\ pc = "idle"
    /\ frame = NoFrame

CallGetDogsByWeightRange ==
    \E min \in WeightArgs, max \in WeightArgs, unit \in UnitArgs :
        /\ Idle
        /\ call' = [op |-> "getDogsByWeightRange", args |-> <<min, max, unit>>]
        /\ ret' = getDogsByWeightRange(min, max, unit)
        /\ UNCHANGED <<dogBreeds, pc, frame>>

NextWeight == CallGetDogsByWeightRange

SpecWeight == InitWeight /\ [][NextWeight]_vars

(***************************************************************************)
(* Recommendation                                                          *)
(***************************************************************************)
MaxRecommendCatalog == 2

Compatibility(children, otherDogs, cats) ==
    Obj([children |-> children, otherDogs |-> otherDogs, cats |-> cats])

RecommendPool ==
    {Breed(<<"a">>),
     [Breed(<<"b">>) EXCEPT
         !.size = Str(<<"l">>),
         !.compatibility = Compatibility(Bool(TRUE), Bool(FALSE), Bool(TRUE)),
         !.weight = Weight(WeightData(0, 1), WeightData(1, 2)),
         !.lifespan = Str(<<"2">>)],
     [Breed(<<"c">>) EXCEPT
         !.compatibility = Compatibility(Bool(FALSE), Bool(FALSE), Bool(FALSE)),
         !.weight = Weight(WeightData(2, 2), Undefined),
         !.lifespan = Undefined],
     [Breed(<<"d">>) EXCEPT
         !.origin = Str(<<"y">>),
         !.weight = Weight(Undefined, WeightData(0, 0)),
         !.lifespan = Str(<<"x">>)],
     [Breed(<<"e">>) EXCEPT
         !.size = Str(<<"L">>),
         !.compatibility = Compatibility(Bool(TRUE), Undefined, Bool(FALSE)),
         !.weight = Weight(WeightData(1, 2), WeightData(0, 1)),
         !.lifespan = Str(<<"1", " ", "en-dash", " ", "2", " ", "y">>)],
     Str(<<"f">>)}

RecommendCatalogs == UNION {[1..n -> RecommendPool] : n \in 1..MaxRecommendCatalog}

WeightRange(min, max, unit) == Obj([min |-> min, max |-> max, unit |-> unit])

PreferenceObjects ==
    {[EmptyPreferences EXCEPT
         !.size = sz, !.origin = og, !.compatibility = cp,
         !.weightRange = wr, !.minLifespan = ml] :
        sz \in {Undefined, Str(<<"s">>), Str(<<"l">>)},
        og \in {Undefined, Str(<<"x">>)},
        cp \in {Undefined,
                Compatibility(Undefined, Undefined, Undefined),
                Compatibility(Bool(TRUE), Undefined, Undefined),
                Compatibility(Bool(FALSE), Undefined, Bool(FALSE))},
        wr \in {Undefined,
                WeightRange(Num(0), Num(1), Undefined),
                WeightRange(Num(1), Num(2), Str(<<"k","g","s">>)),
                WeightRange(Num(2), Num(0), Str(<<"k","g">>))},
        ml \in {Undefined, Num(0), Num(2)}}

PreferenceArgs ==
    {Obj(p) : p \in PreferenceObjects} \cup {Undefined, Null, Num(1)}

InitRecommend ==
    /\ dogBreeds \in RecommendCatalogs
    /\ call = NoCall
    /\ ret = Pass
    /\ pc = "idle"
    /\ frame = NoFrame

CallGetRecommendedBreeds ==
    \E preferences \in PreferenceArgs :
        /\ Idle
        /\ call' = [op |-> "getRecommendedBreeds", args |-> <<preferences>>]
        /\ ret' = getRecommendedBreeds(preferences)
        /\ UNCHANGED <<dogBreeds, pc, frame>>

NextRecommend == CallGetRecommendedBreeds

SpecRecommend == InitRecommend /\ [][NextRecommend]_vars

(***************************************************************************)
(* Recommendation by scalar criteria                                       *)
(***************************************************************************)
MaxScalarCatalog == 2

ScalarPool ==
    {Breed(<<"a">>),
     [Breed(<<"b">>) EXCEPT !.size = Str(<<"S">>)],
     [Breed(<<"c">>) EXCEPT !.energyLevel = Str(<<"h">>)],
     [Breed(<<"d">>) EXCEPT !.origin = Str(<<"x", " ">>)],
     [Breed(<<"e">>) EXCEPT !.trainability = Str(<<"h">>),
                            !.shedding = Str(<<"l">>),
                            !.groomingNeeds = Str(<<"h">>)],
     Str(<<"f">>)}

ScalarCatalogs == UNION {[1..n -> ScalarPool] : n \in 1..MaxScalarCatalog}

ScalarPreferenceArgs ==
    {Obj([EmptyPreferences EXCEPT
             !.size = sz, !.energyLevel = en, !.trainability = tr,
             !.shedding = sh, !.groomingNeeds = gr, !.origin = og]) :
        sz \in {Undefined, Str(<<>>), Str(<<"s">>), Str(<<"S">>)},
        en \in {Undefined, Str(<<"l">>)},
        tr \in {Undefined, Str(<<"l">>)},
        sh \in {Undefined, Str(<<"m">>)},
        gr \in {Undefined, Str(<<"l">>)},
        og \in {Undefined, Str(<<>>), Str(<<"x">>)}}

InitScalar ==
    /\ dogBreeds \in ScalarCatalogs
    /\ call = NoCall
    /\ ret = Pass
    /\ pc = "idle"
    /\ frame = NoFrame

CallRecommendScalar ==
    \E preferences \in ScalarPreferenceArgs :
        /\ Idle
        /\ call' = [op |-> "getRecommendedBreeds", args |-> <<preferences>>]
        /\ ret' = getRecommendedBreeds(preferences)
        /\ UNCHANGED <<dogBreeds, pc, frame>>

NextScalar == CallRecommendScalar

SpecScalar == InitScalar /\ [][NextScalar]_vars

(***************************************************************************)
(* Recommendation by weight range                                          *)
(***************************************************************************)
\* weightRange.unit as callers may write it: omitted, the two documented
\* units, and aliases that getDogsByWeightRange accepts
WeightRangeUnits ==
    {Undefined, Str(<<"l","b","s">>), Str(<<"k","g","s">>), Str(<<"k","g">>),
     Str(<<"K","G","S">>), Str(<<"p","o","u","n","d","s">>)}

WeightRangeArgs ==
    {Obj([EmptyPreferences EXCEPT !.weightRange = WeightRange(Num(lo), Num(hi), unit)]) :
        lo \in 0..MaxWeight, hi \in 0..MaxWeight, unit \in WeightRangeUnits}

InitRecommendWeight ==
    /\ dogBreeds \in WeightCatalogs
    /\ call = NoCall
    /\ ret = Pass
    /\ pc = "idle"
    /\ frame = NoFrame

CallRecommendByWeight ==
    \E preferences \in WeightRangeArgs :
        /\ Idle
        /\ call' = [op |-> "getRecommendedBreeds", args |-> <<preferences>>]
        /\ ret' = getRecommendedBreeds(preferences)
        /\ UNCHANGED <<dogBreeds, pc, frame>>

NextRecommendWeight == CallRecommendByWeight

SpecRecommendWeight == InitRecommendWeight /\ [][NextRecommendWeight]_vars

(***************************************************************************)
(* Operations on a required string, and comparison                         *)
(***************************************************************************)
MaxCompareCatalog == 2

ComparePool ==
    {Breed(<<"a">>),
     [Breed(<<"b">>) EXCEPT
         !.size = Str(<<"L">>),
         !.compatibility = Compatibility(Bool(FALSE), Bool(TRUE), Undefined),
         !.weight = Weight(WeightData(0, 1), WeightData(1, 2)),
         !.temperament = Arr(<<Str(<<"C", " ">>), Str(<<"a">>)>>)],
     [Breed(<<"a">>) EXCEPT
         !.compatibility = Compatibility(Bool(TRUE), Bool(FALSE), Bool(FALSE)),
         !.lifespan = Undefined,
         !.origin = Str(<<" ", "X", "a">>)],
     [Breed(<<"b">>) EXCEPT
         !.compatibility = Compatibility(Bool(TRUE), Bool(TRUE), Bool(FALSE)),
         !.energyLevel = Undefined,
         !.shedding = Str(<<"m", "L">>)],
     Str(<<"b">>)}

CompareCatalogs == UNION {[1..n -> ComparePool] : n \in 1..MaxCompareCatalog}

\* A required string as callers may pass it: missing, not a string, blank,
\* or a string
StringArgs ==
    {Undefined, Null, Num(1), Str(<<>>), Str(<<" ">>), Str(<<" ", " ">>),
     Str(<<"a">>), Str(<<"B", " ">>), Str(<<"c">>), Str(<<"x">>), Str(<<"L">>),
     Str(<<"M">>), Str(<<"S", " ">>)}

InitCompare ==
    /\ dogBreeds \in CompareCatalogs
    /\ call = NoCall
    /\ ret = Pass
    /\ pc = "idle"
    /\ frame = NoFrame

\* { fuzzy: false }
ExactOptions == [fuzzy |-> Bool(FALSE), lang |-> Undefined]

LookupOptions == {NoOptions, FuzzyOptions, ExactOptions}

CallIsValidDogBreed ==
    \E breed \in StringArgs, options \in LookupOptions :
        /\ Idle
        /\ call' = [op |-> "isValidDogBreed", args |-> <<breed, options>>]
        /\ ret' = isValidDogBreed(breed, options)
        /\ UNCHANGED <<dogBreeds, pc, frame>>

CallGetDogBreedOrigin ==
    \E breed \in StringArgs, options \in LookupOptions :
        /\ Idle
        /\ call' = [op |-> "getDogBreedOrigin", args |-> <<breed, options>>]
        /\ ret' = getDogBreedOrigin(breed, options)
        /\ UNCHANGED <<dogBreeds, pc, frame>>

CallGetDogBreedDataOf ==
    \E breed \in StringArgs, options \in LookupOptions :
        /\ Idle
        /\ call' = [op |-> "getDogBreedData", args |-> <<breed, options>>]
        /\ ret' = getDogBreedData(breed, options)
        /\ UNCHANGED <<dogBreeds, pc, frame>>

CallGetDogsByCountry ==
    \E value \in StringArgs :
        /\ Idle
        /\ call' = [op |-> "getDogsByCountry", args |-> <<value>>]
        /\ ret' = getDogsByCountry(value)
        /\ UNCHANGED <<dogBreeds, pc, frame>>

CallGetDogsBySize ==
    \E value \in StringArgs :
        /\ Idle
        /\ call' = [op |-> "getDogsBySize", args |-> <<value>>]
        /\ ret' = getDogsBySize(value)
        /\ UNCHANGED <<dogBreeds, pc, frame>>

CallGetDogsByTemperament ==
    \E value \in StringArgs :
        /\ Idle
        /\ call' = [op |-> "getDogsByTemperament", args |-> <<value>>]
        /\ ret' = getDogsByTemperament(value)
        /\ UNCHANGED <<dogBreeds, pc, frame>>

CallGetDogsByEnergyLevel ==
    \E value \in StringArgs :
        /\ Idle
        /\ call' = [op |-> "getDogsByEnergyLevel", args |-> <<value>>]
        /\ ret' = getDogsByEnergyLevel(value)
        /\ UNCHANGED <<dogBreeds, pc, frame>>

CallGetDogsByTrainability ==
    \E value \in StringArgs :
        /\ Idle
        /\ call' = [op |-> "getDogsByTrainability", args |-> <<value>>]
        /\ ret' = getDogsByTrainability(value)
        /\ UNCHANGED <<dogBreeds, pc, frame>>

CallGetDogsByShedding ==
    \E value \in StringArgs :
        /\ Idle
        /\ call' = [op |-> "getDogsByShedding", args |-> <<value>>]
        /\ ret' = getDogsByShedding(value)
        /\ UNCHANGED <<dogBreeds, pc, frame>>

CallGetDogsByGroomingNeeds ==
    \E value \in StringArgs :
        /\ Idle
        /\ call' = [op |-> "getDogsByGroomingNeeds", args |-> <<value>>]
        /\ ret' = getDogsByGroomingNeeds(value)
        /\ UNCHANGED <<dogBreeds, pc, frame>>

CallFuzzySearchBreedsFor ==
    \E searchTerm \in StringArgs, maxDistance \in {Undefined, Num(1)} :
        /\ Idle
        /\ call' = [op |-> "fuzzySearchBreeds", args |-> <<searchTerm, maxDistance>>]
        /\ ret' = fuzzySearchBreeds(searchTerm, maxDistance)
        /\ UNCHANGED <<dogBreeds, pc, frame>>

CallCompareBreeds ==
    \E breed1 \in StringArgs, breed2 \in StringArgs :
        /\ Idle
        /\ call' = [op |-> "compareBreeds", args |-> <<breed1, breed2>>]
        /\ ret' = compareBreeds(breed1, breed2)
        /\ UNCHANGED <<dogBreeds, pc, frame>>

NextCompare ==
    \/ CallIsValidDogBreed
    \/ CallGetDogBreedOrigin
    \/ CallGetDogBreedDataOf
    \/ CallGetDogsByCountry
    \/ CallGetDogsBySize
    \/ CallGetDogsByTemperament
    \/ CallGetDogsByEnergyLevel
    \/ CallGetDogsByTrainability
    \/ CallGetDogsByShedding
    \/ CallGetDogsByGroomingNeeds
    \/ CallFuzzySearchBreedsFor
    \/ CallCompareBreeds

SpecCompare == InitCompare /\ [][NextCompare]_vars

(***************************************************************************)
(* Operations that reject values outside their domain                      *)
(***************************************************************************)
\* Keys as callers may pass them: the valid keys, a key in another case,
\* an unknown key, and values that are not strings
CompatibilityKeyArgs ==
    {Str(VALID_COMPATIBILITY_KEYS[k]) : k \in DOMAIN VALID_COMPATIBILITY_KEYS}
        \cup {Str(<<"C","a","t","s">>), Str(<<"d","o","g","s">>), Str(<<>>),
              Undefined, Num(1)}

CompatibilityValueArgs ==
    {Bool(TRUE), Bool(FALSE), Undefined, Null, Num(0), Num(1),
     Str(<<"t","r","u","e">>)}

InitDomain ==
    /\ dogBreeds \in CompareCatalogs
    /\ call = NoCall
    /\ ret = Pass
    /\ pc = "idle"
    /\ frame = NoFrame

CallGetDogsByCompatibility ==
    \E key \in CompatibilityKeyArgs, value \in CompatibilityValueArgs :
        /\ Idle
        /\ call' = [op |-> "getDogsByCompatibility", args |-> <<key, value>>]
        /\ ret' = getDogsByCompatibility(key, value)
        /\ UNCHANGED <<dogBreeds, pc, frame>>

NextDomain ==
    \/ CallGetDogsByWeightRange
    \/ CallGetDogsByCompatibility
    \/ CallFuzzySearchBreeds

SpecDomain == InitDomain /\ [][NextDomain]_vars

(***************************************************************************)
(* Calls followed statement by statement                                   *)
(***************************************************************************)
StepNames ==
    {Undefined, Str(<<" ">>), Str(<<"a">>), Str(<<"B", " ">>), Str(<<"c">>)}

StepUnits == {Undefined, Num(1), Str(<<"K","G"," ">>), Str(<<"g">>)}

StepDistances == {Undefined, Num(-1), Num(1), Str(<<"a">>)}

InitSteps ==
    /\ dogBreeds \in CompareCatalogs
    /\ call = NoCall
    /\ ret = Pass
    /\ pc = "idle"
    /\ frame = NoFrame

\* The call ends: it returns or throws
Finish(outcome) == ret' = outcome /\ pc' = "done"

\* The call goes on to its next statement
Goto(statement) == pc' = statement /\ UNCHANGED ret

\* frame after one more statement
Executed(statement) == [frame EXCEPT !.steps = Append(@, statement)]

\* A validation statement: the error it throws ends the call
Validate(outcome, statement, next) ==
    /\ frame' = Executed(statement)
    /\ IF outcome.kind = "throw" THEN Finish(outcome) ELSE Goto(next)
    /\ UNCHANGED <<dogBreeds, call>>

\* The records Array.prototype.find has examined when it stops
examinedBy(found) == IF found = NULL THEN Len(dogBreeds) ELSE found

BeginCompareBreeds ==
    \E breed1 \in StepNames, breed2 \in StepNames :
        /\ Idle
        /\ call' = [op |-> "compareBreeds", args |-> <<breed1, breed2>>]
        /\ pc' = "compare:validate1"
        /\ UNCHANGED <<dogBreeds, ret, frame>>

CompareValidate1 ==
    /\ pc = "compare:validate1"
    /\ Validate(validateNonEmptyString(call.args[1], "Breed 1"),
                "validate1", "compare:validate2")

CompareValidate2 ==
    /\ pc = "compare:validate2"
    /\ Validate(validateNonEmptyString(call.args[2], "Breed 2"),
                "validate2", "compare:lookup1")

CompareLookup1 ==
    /\ pc = "compare:lookup1"
    /\ LET dog1 == getDogBreedData(call.args[1], FuzzyOptions)
       IN  IF dog1.kind = "throw"
           THEN frame' = Executed("lookup1") /\ Finish(dog1)
           ELSE /\ frame' = [Executed("lookup1") EXCEPT
                                !.dog1 = dog1.value,
                                !.examined = @ + examinedBy(dog1.value)]
                /\ Goto("compare:lookup2")
    /\ UNCHANGED <<dogBreeds, call>>

CompareLookup2 ==
    /\ pc = "compare:lookup2"
    /\ LET dog2 == getDogBreedData(call.args[2], FuzzyOptions)
       IN  IF dog2.kind = "throw"
           THEN frame' = Executed("lookup2") /\ Finish(dog2)
           ELSE /\ frame' = [Executed("lookup2") EXCEPT
                                !.dog2 = dog2.value,
                                !.examined = @ + examinedBy(dog2.value)]
                /\ Goto("compare:check1")
    /\ UNCHANGED <<dogBreeds, call>>

\* Variant of CompareCheck1 that tests the second record first
CompareCheck1_secondFirst ==
    /\ pc = "compare:check1"
    /\ frame' = Executed("check1")
    /\ IF missing(frame.dog2) THEN Finish(NotFound(call.args[2]))
       ELSE IF missing(frame.dog1) THEN Finish(NotFound(call.args[1]))
       ELSE Goto("compare:check2")
    /\ UNCHANGED <<dogBreeds, call>>

CompareCheck1 ==
    /\ pc = "compare:check1"
    /\ frame' = Executed("check1")
    /\ IF missing(frame.dog1) THEN Finish(NotFound(call.args[1]))
       ELSE Goto("compare:check2")
    /\ UNCHANGED <<dogBreeds, call>>

CompareCheck2 ==
    /\ pc = "compare:check2"
    /\ frame' = Executed("check2")
    /\ IF missing(frame.dog2) THEN Finish(NotFound(call.args[2]))
       ELSE Goto("compare:return")
    /\ UNCHANGED <<dogBreeds, call>>

CompareReturn ==
    /\ pc = "compare:return"
    /\ frame' = Executed("return")
    /\ Finish(Return(comparisonOf(frame.dog1, frame.dog2)))
    /\ UNCHANGED <<dogBreeds, call>>

BeginGetDogsByWeightRange ==
    \E min \in WeightArgs, max \in WeightArgs, unit \in StepUnits :
        /\ Idle
        /\ call' = [op |-> "getDogsByWeightRange", args |-> <<min, max, unit>>]
        /\ pc' = "weight:validateRange"
        /\ UNCHANGED <<dogBreeds, ret, frame>>

\* Variant of WeightValidateRange that puts off the unit until after the
\* filter
WeightValidateRange_unitLater ==
    /\ pc = "weight:validateRange"
    /\ Validate(validateNumberRange(call.args[1], call.args[2]),
                "validateRange", "weight:filter")

WeightValidateRange ==
    /\ pc = "weight:validateRange"
    /\ Validate(validateNumberRange(call.args[1], call.args[2]),
                "validateRange", "weight:validateUnit")

WeightValidateUnit ==
    /\ pc = "weight:validateUnit"
    /\ LET normalizedUnit == validateUnit(call.args[3])
       IN  IF normalizedUnit.kind = "throw"
           THEN frame' = Executed("validateUnit") /\ Finish(normalizedUnit)
           ELSE /\ frame' = [Executed("validateUnit") EXCEPT
                                !.unit = normalizedUnit.value]
                /\ Goto("weight:filter")
    /\ UNCHANGED <<dogBreeds, call>>

\* The filter callback runs on the next record
WeightFilter ==
    /\ pc = "weight:filter"
    /\ frame.i < Len(dogBreeds)
    /\ LET sortedMin == Min2(call.args[1].v, call.args[2].v)
           sortedMax == Max2(call.args[1].v, call.args[2].v)
           keep == inWeightRange(dogBreeds[frame.i + 1], frame.unit,
                                 sortedMin, sortedMax)
       IN  frame' = [Executed("filter") EXCEPT
                        !.i = @ + 1,
                        !.examined = @ + 1,
                        !.kept = IF keep THEN Append(@, frame.i + 1) ELSE @]
    /\ Goto("weight:filter")
    /\ UNCHANGED <<dogBreeds, call>>

WeightReturn ==
    /\ pc = "weight:filter"
    /\ frame.i = Len(dogBreeds)
    /\ frame' = Executed("return")
    /\ Finish(Return(frame.kept))
    /\ UNCHANGED <<dogBreeds, call>>

BeginFuzzySearchBreeds ==
    \E searchTerm \in StepNames, maxDistance \in StepDistances :
        /\ Idle
        /\ call' = [op |-> "fuzzySearchBreeds", args |-> <<searchTerm, maxDistance>>]
        /\ pc' = "search:validateTerm"
        /\ UNCHANGED <<dogBreeds, ret, frame>>

SearchValidateTerm ==
    /\ pc = "search:validateTerm"
    /\ Validate(validateNonEmptyString(call.args[1], "Search term"),
                "validateTerm", "search:validateMaxDistance")

SearchValidateMaxDistance ==
    /\ pc = "search:validateMaxDistance"
    /\ Validate(validateNonNegativeNumber(
                    IF TypeOf(call.args[2]) = "undefined"
                    THEN Num(DefaultMaxDistance) ELSE call.args[2],
                    "maxDistance"),
                "validateMaxDistance", "search:scan")

\* The two filter passes, the sort and the return; normalizeBreed throws on
\* the first entry whose name is not a string
SearchScan ==
    /\ pc = "search:scan"
    /\ LET unnamed == {i \in 1..Len(dogBreeds) :
                          \/ TypeOf(dogBreeds[i]) # "object"
                          \/ TypeOf(dogBreeds[i].name) # "string"}
           first == CHOOSE i \in unnamed : \A j \in unnamed : i <= j
       IN  frame' = [Executed("scan") EXCEPT
                        !.examined = IF unnamed = {} THEN 2 * Len(dogBreeds)
                                     ELSE first]
    /\ Finish(fuzzySearchBreeds(call.args[1], call.args[2]))
    /\ UNCHANGED <<dogBreeds, call>>

NextSteps ==
    \/ BeginCompareBreeds
    \/ CompareValidate1
    \/ CompareValidate2
    \/ CompareLookup1
    \/ CompareLookup2
    \/ CompareCheck1
    \/ CompareCheck2
    \/ CompareReturn
    \/ BeginGetDogsByWeightRange
    \/ WeightValidateRange
    \/ WeightValidateUnit
    \/ WeightFilter
    \/ WeightReturn
    \/ BeginFuzzySearchBreeds
    \/ SearchValidateTerm
    \/ SearchValidateMaxDistance
    \/ SearchScan

SpecSteps == InitSteps /\ [][NextSteps]_vars

(***************************************************************************)
(* Edit distance                                                           *)
(***************************************************************************)
MaxDistanceLen == 3

DistanceStrings == Strings(TermChars, 0, MaxDistanceLen)

InitDistance ==
    /\ dogBreeds \in {<<Breed(<<"a">>)>>}
    /\ call = NoCall
    /\ ret = Pass
    /\ pc = "idle"
    /\ frame = NoFrame

CallLevenshteinDistance ==
    \E a \in DistanceStrings, b \in DistanceStrings :
        /\ Idle
        /\ call' = [op |-> "levenshteinDistance", args |-> <<Str(a), Str(b)>>]
        /\ ret' = Return(Num(levenshteinDistance(a, b)))
        /\ UNCHANGED <<dogBreeds, pc, frame>>

NextDistance == CallLevenshteinDistance

SpecDistance == InitDistance /\ [][NextDistance]_vars

(***************************************************************************)
(* The engine: any catalog, any operation                                  *)
(***************************************************************************)
Pool == SearchPool \cup FindPool \cup WeightPool \cup RecommendPool

Init ==
    /\ dogBreeds \in {<<dog>> : dog \in Pool}
    /\ call = NoCall
    /\ ret = Pass
    /\ pc = "idle"
    /\ frame = NoFrame

Next ==
    \/ CallFuzzySearchBreeds
    \/ CallGetDogBreedData
    \/ CallGetDogsByWeightRange
    \/ CallGetRecommendedBreeds

Spec == Init /\ [][Next]_vars

(***************************************************************************)
(* Properties of fuzzySearchBreeds                                         *)
(***************************************************************************)
SearchReturned == call.op = "fuzzySearchBreeds" /\ ret.kind = "return"

\* The normalized search term and the effective maxDistance of the call
SearchTermOfCall == toLowerCase(trim(call.args[1].v))
MaxDistanceOfCall ==
    IF call.args[2].t = "undefined" THEN DefaultMaxDistance ELSE call.args[2].v

NormName(i) == toLowerCase(trim(dogBreeds[i].name.v))
Contained(i) == \/ includes(NormName(i), SearchTermOfCall)
                \/ includes(SearchTermOfCall, NormName(i))
Dist(i) == levenshteinDistance(SearchTermOfCall, NormName(i))

\* The number of leading entries of the result that are substring matches
PrefixLen == Cardinality({k \in DOMAIN ret.value : Contained(ret.value[k])})

\* C1: the result of fuzzySearchBreeds is all substring matches in catalog
\* order, followed by the other returned records in non-decreasing edit
\* distance, equal distances in catalog order.
C1_PartitionedAndOrdered ==
    SearchReturned =>
        LET r == ret.value
            n == PrefixLen
        IN  /\ \A k \in DOMAIN r : Contained(r[k]) <=> k <= n
            /\ \A i \in DOMAIN dogBreeds :
                   Contained(i) => \E k \in 1..n : r[k] = i
            /\ \A k1, k2 \in 1..n : k1 < k2 => r[k1] < r[k2]
            /\ \A k1, k2 \in (n + 1)..Len(r) :
                   k1 < k2 => \/ Dist(r[k1]) < Dist(r[k2])
                              \/ Dist(r[k1]) = Dist(r[k2]) /\ r[k1] < r[k2]

\* A substring match that sits between two fuzzy matches in the catalog is
\* returned first, and the two fuzzy matches are returned in distance order,
\* against catalog order.
C1_Witness ==
    /\ SearchReturned
    /\ Len(ret.value) = 3
    /\ PrefixLen = 1
    /\ ret.value[1] = 2
    /\ ret.value[2] = 3
    /\ ret.value[3] = 1
    /\ Dist(3) < Dist(1)

C3_ZeroDistanceOnlySubstring ==
    (SearchReturned /\ call.args[2].t = "number" /\ call.args[2].v = 0) =>
        \A k \in DOMAIN ret.value : Contained(ret.value[k])

\* A search with maxDistance 0 returns a substring match and leaves out a
\* record one edit away from the term.
C3_Witness ==
    /\ SearchReturned
    /\ call.args[2].t = "number"
    /\ call.args[2].v = 0
    /\ ret.value # <<>>
    /\ \E i \in DOMAIN dogBreeds :
           /\ Dist(i) = 1
           /\ ~Contained(i)
           /\ \A k \in DOMAIN ret.value : ret.value[k] # i
(***************************************************************************)
(* Properties of single-record lookup                                      *)
(***************************************************************************)
FindReturned == call.op = "getDogBreedData" /\ ret.kind = "return"

QueryOfCall == toLowerCase(trim(call.args[1].v))
FuzzyOfCall ==
    IF call.args[2].fuzzy.t = "undefined" THEN TRUE ELSE call.args[2].fuzzy.v
LangOfCall ==
    IF call.args[2].lang.t = "undefined" THEN <<"e", "n">> ELSE call.args[2].lang.v

\* The name of a catalog entry, and its non-empty alternate name for lang
\* if it has one
RecordName(i) ==
    IF dogBreeds[i].t = "string" THEN dogBreeds[i].v ELSE dogBreeds[i].name.v
HasAlternate(i, lang) ==
    /\ dogBreeds[i].t = "object"
    /\ dogBreeds[i].names.t = "object"
    /\ lang \in DOMAIN dogBreeds[i].names.v
    /\ dogBreeds[i].names.v[lang].v # <<>>
Alternate(i, lang) == dogBreeds[i].names.v[lang].v

\* The comparison name as the code selects it, and as the claim C6 states it
UsedName(i) ==
    IF HasAlternate(i, LangOfCall) THEN Alternate(i, LangOfCall) ELSE RecordName(i)
StatedName(i) ==
    IF LangOfCall # <<"e", "n">> /\ HasAlternate(i, LangOfCall)
    THEN Alternate(i, LangOfCall)
    ELSE RecordName(i)

\* The match of the query with a name, in the mode of the call
MatchesQuery(name) ==
    LET n == toLowerCase(trim(name))
    IN  IF FuzzyOfCall
        THEN includes(n, QueryOfCall) \/ includes(QueryOfCall, n)
        ELSE n = QueryOfCall

\* C4: with fuzzy matching enabled the lookup returns the first catalog
\* record whose normalized comparison name contains the normalized query or
\* is contained in it, and null exactly when there is none.
C4_FuzzyFirstMatch ==
    (FindReturned /\ FuzzyOfCall) =>
        LET cont(i) ==
                LET n == toLowerCase(trim(UsedName(i)))
                IN  includes(n, QueryOfCall) \/ includes(QueryOfCall, n)
        IN  /\ ret.value = NULL <=> \A i \in DOMAIN dogBreeds : ~cont(i)
            /\ ret.value # NULL =>
                   /\ cont(ret.value)
                   /\ \A i \in 1..(ret.value - 1) : ~cont(i)

\* Two records match the query in fuzzy mode, the first by containing the
\* query, and the first is returned.
C4_Witness ==
    /\ FindReturned
    /\ FuzzyOfCall
    /\ Len(dogBreeds) = 2
    /\ ret.value = 1
    /\ MatchesQuery(UsedName(2))
    /\ toLowerCase(trim(UsedName(1))) # QueryOfCall

\* C5 as stated: an exact lookup never returns a record whose normalized
\* name differs from the normalized query.
C5_Original ==
    (FindReturned /\ ~FuzzyOfCall /\ ret.value # NULL) =>
        toLowerCase(trim(RecordName(ret.value))) = QueryOfCall

\* C5 amended: an exact lookup never returns a record whose normalized
\* comparison name (its alternate name for lang when it has a non-empty
\* one, else its name) differs from the normalized query.
C5_ExactComparisonName ==
    (FindReturned /\ ~FuzzyOfCall /\ ret.value # NULL) =>
        toLowerCase(trim(UsedName(ret.value))) = QueryOfCall

\* An exact lookup returns a record through its alternate name, which is
\* not its name, while the query is contained in the name of an earlier
\* record that is passed over.
C5_Witness ==
    /\ FindReturned
    /\ ~FuzzyOfCall
    /\ ret.value = 2
    /\ HasAlternate(2, LangOfCall)
    /\ toLowerCase(trim(RecordName(2))) # QueryOfCall
    /\ includes(toLowerCase(trim(UsedName(1))), QueryOfCall)

\* C6 as stated: the name compared is the alternate name for lang only
\* when lang is not "en"; the lookup returns the first record whose name so
\* selected matches the query, and null when there is none.
C6_Original ==
    FindReturned =>
        /\ ret.value = NULL <=>
               \A i \in DOMAIN dogBreeds : ~MatchesQuery(StatedName(i))
        /\ ret.value # NULL =>
               /\ MatchesQuery(StatedName(ret.value))
               /\ \A i \in 1..(ret.value - 1) : ~MatchesQuery(StatedName(i))

\* C6 amended: the name compared is the alternate name for lang whenever
\* the record has a non-empty one, lang "en" included, and the record's
\* name otherwise; the lookup returns the first record whose name so
\* selected matches the query, and null when there is none.
C6_ComparisonName ==
    FindReturned =>
        /\ ret.value = NULL <=>
               \A i \in DOMAIN dogBreeds : ~MatchesQuery(UsedName(i))
        /\ ret.value # NULL =>
               /\ MatchesQuery(UsedName(ret.value))
               /\ \A i \in 1..(ret.value - 1) : ~MatchesQuery(UsedName(i))

\* A lookup with lang "en" returns a record for its "en" alternate name,
\* which its name does not match, and passes over an earlier record whose
\* empty alternate name leaves its name to be compared.
C6_Witness ==
    /\ FindReturned
    /\ LangOfCall = <<"e", "n">>
    /\ ret.value = 2
    /\ HasAlternate(2, LangOfCall)
    /\ ~MatchesQuery(RecordName(2))
    /\ dogBreeds[1].t = "object"
    /\ dogBreeds[1].names.t = "object"
    /\ ~HasAlternate(1, LangOfCall)
(***************************************************************************)
(* Properties of getDogsByWeightRange                                      *)
(***************************************************************************)
WeightReturned == call.op = "getDogsByWeightRange" /\ ret.kind = "return"

KilogramAliases ==
    {<<"k","g">>, <<"k","g","s">>, <<"k","i","l","o","g","r","a","m">>,
     <<"k","i","l","o","g","r","a","m","s">>, <<"k","i","l","o">>,
     <<"k","i","l","o","s">>}
PoundAliases ==
    {<<"l","b">>, <<"l","b","s">>, <<"p","o","u","n","d">>,
     <<"p","o","u","n","d","s">>}

\* The unit argument of the call after trimming and case-folding
FoldedUnitOfCall == toLowerCase(trim(call.args[3].v))
IsKilograms ==
    call.args[3].t = "string" /\ FoldedUnitOfCall \in KilogramAliases
IsPounds ==
    \/ call.args[3].t = "undefined"
    \/ call.args[3].t = "string" /\ FoldedUnitOfCall \in PoundAliases

QueryMin ==
    IF call.args[1].v <= call.args[2].v THEN call.args[1].v ELSE call.args[2].v
QueryMax ==
    IF call.args[1].v <= call.args[2].v THEN call.args[2].v ELSE call.args[1].v

\* The stored range of record i for the unit of the call, if it has one
HasStoredRange(i) ==
    /\ dogBreeds[i].weight.t = "object"
    /\ IF IsKilograms THEN dogBreeds[i].weight.v.kgs.t = "object"
       ELSE dogBreeds[i].weight.v.lbs.t = "object"
StoredRange(i) ==
    IF IsKilograms THEN dogBreeds[i].weight.v.kgs.v
    ELSE dogBreeds[i].weight.v.lbs.v

Returned(i) == \E k \in DOMAIN ret.value : ret.value[k] = i

\* C7: getDogsByWeightRange(a, b, unit) returns the same records in the same
\* order as getDogsByWeightRange(b, a, unit).
C7_OrderInvariant ==
    WeightReturned =>
        ret = getDogsByWeightRange(call.args[2], call.args[1], call.args[3])

\* The first argument is the larger one, and the call returns one record
\* and leaves out another.
C7_Witness ==
    /\ WeightReturned
    /\ call.args[1].v > call.args[2].v
    /\ Len(dogBreeds) = 2
    /\ Len(ret.value) = 1

\* C8: every unit string that is a kilogram alias after trimming and
\* case-folding gives the result of "kgs", and every pound alias, and an
\* omitted unit, gives the result of "lbs".
C8_AliasEquivalence ==
    (call.op = "getDogsByWeightRange"
        /\ call.args[1].t = "number" /\ call.args[2].t = "number") =>
        /\ IsKilograms =>
               ret = getDogsByWeightRange(call.args[1], call.args[2],
                                          Str(<<"k","g","s">>))
        /\ IsPounds =>
               ret = getDogsByWeightRange(call.args[1], call.args[2],
                                          Str(<<"l","b","s">>))

\* A unit written in capitals with a trailing blank is taken as kilograms,
\* and the result differs from the result for pounds.
C8_Witness ==
    /\ WeightReturned
    /\ IsKilograms
    /\ call.args[3].v \notin KilogramAliases
    /\ ret.value # <<>>
    /\ ret # getDogsByWeightRange(call.args[1], call.args[2], Str(<<"l","b","s">>))

\* C9: getDogsByWeightRange returns, in catalog order, exactly the records
\* that have a stored range for the resolved unit which overlaps the sorted
\* query range, endpoints included.
C9_InclusiveOverlap ==
    WeightReturned =>
        /\ \A i \in DOMAIN dogBreeds :
               Returned(i) <=>
                   /\ HasStoredRange(i)
                   /\ ~(StoredRange(i).max < QueryMin \/ StoredRange(i).min > QueryMax)
        /\ \A k1, k2 \in DOMAIN ret.value : k1 < k2 => ret.value[k1] < ret.value[k2]

\* A record whose range only touches the query range at an endpoint is
\* returned, and a record with weight data but none for the resolved unit
\* is not.
C9_Witness ==
    /\ WeightReturned
    /\ \E i \in DOMAIN dogBreeds :
           /\ Returned(i)
           /\ StoredRange(i).max = QueryMin
           /\ StoredRange(i).min < QueryMin
    /\ \E i \in DOMAIN dogBreeds :
           /\ dogBreeds[i].weight.t = "object"
           /\ ~HasStoredRange(i)
           /\ ~Returned(i)
(***************************************************************************)
(* Properties of getRecommendedBreeds                                      *)
(***************************************************************************)
RecommendReturned == call.op = "getRecommendedBreeds" /\ ret.kind = "return"

\* The call passes no preferences, or a preferences object with no
\* property set
NoPreferences ==
    \/ call.args[1].t = "undefined"
    \/ /\ call.args[1].t = "object"
       /\ \A f \in DOMAIN call.args[1].v : call.args[1].v[f].t = "undefined"

\* C10: getRecommendedBreeds({}) and getRecommendedBreeds() return every
\* catalog record, each once, in catalog order.
C10_EmptyPreferencesWholeCatalog ==
    (call.op = "getRecommendedBreeds" /\ NoPreferences) =>
        /\ ret.kind = "return"
        /\ ret.value = [i \in 1..Len(dogBreeds) |-> i]

\* An empty preferences object returns both records of a catalog whose
\* first record has neither weight nor compatibility data and whose second
\* has no lifespan.
C10_Witness ==
    /\ RecommendReturned
    /\ call.args[1].t = "object"
    /\ NoPreferences
    /\ Len(dogBreeds) = 2
    /\ dogBreeds[1].t = "object"
    /\ dogBreeds[1].weight.t = "undefined"
    /\ dogBreeds[1].compatibility.t = "undefined"
    /\ dogBreeds[2].t = "object"
    /\ dogBreeds[2].lifespan.t = "undefined"
    /\ ret.value = <<1, 2>>
(***************************************************************************)
(* Properties of getRecommendedBreeds: scalar criteria                     *)
(***************************************************************************)
ScalarFields ==
    {"size", "energyLevel", "trainability", "shedding", "groomingNeeds", "origin"}

\* The preferences object of the call, and whether it carries scalar
\* criteria only
PreferencesOfCall == call.args[1].v
OnlyScalarCriteria ==
    /\ call.op = "getRecommendedBreeds"
    /\ call.args[1].t = "object"
    /\ PreferencesOfCall.compatibility.t = "undefined"
    /\ PreferencesOfCall.weightRange.t = "undefined"
    /\ PreferencesOfCall.minLifespan.t = "undefined"

\* The raw stored value of a field of record i equals the criterion
StoredEquals(i, f, wanted) ==
    /\ dogBreeds[i].t = "object"
    /\ dogBreeds[i][f].t = wanted.t
    /\ dogBreeds[i][f].v = wanted.v

\* The result is an increasing sequence of catalog positions
InCatalogOrder ==
    \A k1, k2 \in DOMAIN ret.value : k1 < k2 => ret.value[k1] < ret.value[k2]

CompatibilityKeys == {"children", "otherDogs", "cats"}

\* The call carries no criterion other than compatibility
OnlyCompatibilityCriteria ==
    /\ call.op = "getRecommendedBreeds"
    /\ call.args[1].t = "object"
    /\ \A f \in DOMAIN PreferencesOfCall :
           f # "compatibility" => PreferencesOfCall[f].t = "undefined"

\* The boolean sub-criteria the call supplies
BooleanSubCriteria ==
    IF PreferencesOfCall.compatibility.t # "object" THEN {}
    ELSE {k \in CompatibilityKeys :
              PreferencesOfCall.compatibility.v[k].t = "boolean"}

\* Record i has a compatibility object whose sub-field k equals the criterion
StoredFlagEquals(i, k) ==
    /\ dogBreeds[i].t = "object"
    /\ dogBreeds[i].compatibility.t = "object"
    /\ dogBreeds[i].compatibility.v[k] = PreferencesOfCall.compatibility.v[k]

\* C12: each of compatibility.children/otherDogs/cats constrains a record
\* only when present as a boolean, a record without a compatibility object
\* is excluded only once a boolean sub-criterion is supplied, and a
\* compatibility criteria object with no boolean sub-criterion imposes no
\* constraint.
C12_BooleanSubCriteriaOnly ==
    OnlyCompatibilityCriteria =>
        /\ ret.kind = "return"
        /\ \A i \in DOMAIN dogBreeds :
               Returned(i) <=> \A k \in BooleanSubCriteria : StoredFlagEquals(i, k)
(***************************************************************************)
(* Properties of getRecommendedBreeds: weight range                        *)
(***************************************************************************)
\* The call carries no criterion other than weightRange
OnlyWeightRange ==
    /\ call.op = "getRecommendedBreeds"
    /\ call.args[1].t = "object"
    /\ PreferencesOfCall.weightRange.t = "object"
    /\ \A f \in DOMAIN PreferencesOfCall :
           f # "weightRange" => PreferencesOfCall[f].t = "undefined"

WeightRangeOfCall == PreferencesOfCall.weightRange.v

\* The record's stored range for a unit, when it has one
HasRangeFor(i, unit) ==
    /\ dogBreeds[i].t = "object"
    /\ dogBreeds[i].weight.t = "object"
    /\ dogBreeds[i].weight.v[unit].t = "object"

RangeFor(i, unit) == dogBreeds[i].weight.v[unit].v

\* The stored range for a unit overlaps the queried interval, bounds included
OverlapsQuery(i, unit) ==
    /\ HasRangeFor(i, unit)
    /\ RangeFor(i, unit).max >= WeightRangeOfCall.min.v
    /\ RangeFor(i, unit).min <= WeightRangeOfCall.max.v

\* The unit names as weightRange.unit spells them
UnitString(unit) == IF unit = "kgs" THEN <<"k","g","s">> ELSE <<"l","b","s">>

\* C13: with only weightRange {min, max, unit}, min <= max and unit exactly
\* "lbs" or "kgs", getRecommendedBreeds returns exactly the records
\* getDogsByWeightRange(min, max, unit) returns, and no record lacking
\* weight data or the entry for that unit.
C13_SameAsWeightRangeFilter ==
    \A unit \in {"lbs", "kgs"} :
        (/\ OnlyWeightRange
         /\ WeightRangeOfCall.unit = Str(UnitString(unit))
         /\ WeightRangeOfCall.min.v <= WeightRangeOfCall.max.v) =>
            /\ ret = getDogsByWeightRange(WeightRangeOfCall.min, WeightRangeOfCall.max,
                                          WeightRangeOfCall.unit)
            /\ ret.kind = "return"
            /\ \A i \in DOMAIN dogBreeds :
                   /\ Returned(i) <=> OverlapsQuery(i, unit)
                   /\ ~HasRangeFor(i, unit) => ~Returned(i)

\* A kilogram query returns the record whose kilogram range overlaps it and
\* leaves out a record that has a pounds entry only.
C13_Witness ==
    /\ OnlyWeightRange
    /\ WeightRangeOfCall.unit = Str(<<"k","g","s">>)
    /\ WeightRangeOfCall.min.v < WeightRangeOfCall.max.v
    /\ ret.kind = "return"
    /\ \E i, j \in DOMAIN dogBreeds :
           /\ i # j
           /\ OverlapsQuery(i, "kgs")
           /\ Returned(i)
           /\ ~Returned(j)
           /\ HasRangeFor(j, "lbs")
           /\ ~HasRangeFor(j, "kgs")

\* C14: the pounds range of a record is consulted only for unit "lbs" or an
\* omitted unit, the kilograms range only for unit "kgs", and no other unit
\* string selects a weight range: a record is returned only through the
\* range its unit names.
C14_UnitRestricted ==
    OnlyWeightRange =>
        \A i \in DOMAIN dogBreeds :
            Returned(i) =>
                \/ /\ WeightRangeOfCall.unit \in {Undefined, Str(UnitString("lbs"))}
                   /\ OverlapsQuery(i, "lbs")
                \/ /\ WeightRangeOfCall.unit = Str(UnitString("kgs"))
                   /\ OverlapsQuery(i, "kgs")
(***************************************************************************)
(* Properties of getRecommendedBreeds: minimum lifespan                    *)
(***************************************************************************)
\* The call carries no criterion other than minLifespan (which may be absent)
OnlyMinLifespan ==
    /\ call.op = "getRecommendedBreeds"
    /\ call.args[1].t = "object"
    /\ \A f \in DOMAIN PreferencesOfCall :
           f # "minLifespan" => PreferencesOfCall[f].t = "undefined"

\* The lifespan of record i parses to an average of at least n years
AverageAtLeast(i, n) ==
    LET avg == parseLifespanAverage(field(dogBreeds[i], "lifespan"))
    IN  avg.t # "null" /\ avg.v.num >= n * avg.v.den

\* C15: a positive minLifespan excludes every record whose lifespan parses
\* to an average below it and every record whose lifespan is missing or
\* fails to parse; an absent or zero minLifespan imposes no constraint.
C15_MinLifespan ==
    OnlyMinLifespan =>
        /\ ret.kind = "return"
        /\ \A i \in DOMAIN dogBreeds :
               Returned(i) <=>
                   \/ PreferencesOfCall.minLifespan.t = "undefined"
                   \/ PreferencesOfCall.minLifespan.v = 0
                   \/ AverageAtLeast(i, PreferencesOfCall.minLifespan.v)
(***************************************************************************)
(* Properties of the required string arguments                             *)
(***************************************************************************)
\* The display field names of the required string arguments of each
\* operation, in argument order
RequiredStrings ==
    [isValidDogBreed |-> <<"Breed name">>,
     getDogBreedOrigin |-> <<"Breed name">>,
     getDogBreedData |-> <<"Breed name">>,
     getDogsByCountry |-> <<"Country">>,
     getDogsBySize |-> <<"Size">>,
     getDogsByTemperament |-> <<"Temperament trait">>,
     getDogsByEnergyLevel |-> <<"Energy level">>,
     getDogsByTrainability |-> <<"Trainability level">>,
     getDogsByShedding |-> <<"Shedding level">>,
     getDogsByGroomingNeeds |-> <<"Grooming needs level">>,
     fuzzySearchBreeds |-> <<"Search term">>,
     compareBreeds |-> <<"Breed 1", "Breed 2">>]

\* The argument is missing, not a string, or made of white space only
NotANonEmptyString(x) ==
    \/ x.t # "string"
    \/ \A k \in DOMAIN x.v : x.v[k] \in Whitespace

\* The positions of the required string arguments of the call that are
\* not non-empty strings
Offending ==
    {k \in DOMAIN RequiredStrings[call.op] : NotANonEmptyString(call.args[k])}

CompareReturned == call.op = "compareBreeds" /\ ret.kind = "return"

TrackedFields ==
    {"size", "energyLevel", "trainability", "shedding", "lifespan",
     "groomingNeeds", "origin"}

\* Two reported values are equal
SameValue(x, y) == x.t = y.t /\ x.v = y.v

\* C17: for two resolved records every tracked field and every
\* compatibility sub-key is reported as the two records' values with an
\* equality flag that is true exactly when the two reported values are
\* equal; weight is reported side by side with no equality flag.
C17_FlagsAgreeWithReportedValues ==
    CompareReturned =>
        LET comparison == ret.value.comparison
            dog1 == dogBreeds[ret.value.breed1]
            dog2 == dogBreeds[ret.value.breed2]
        IN  /\ \A f \in TrackedFields :
                   /\ comparison[f].breed1 = field(dog1, f)
                   /\ comparison[f].breed2 = field(dog2, f)
                   /\ comparison[f].match
                          <=> SameValue(comparison[f].breed1, comparison[f].breed2)
            /\ \A k \in CompatibilityKeys :
                   comparison.compatibility[k].match
                       <=> SameValue(comparison.compatibility[k].breed1,
                                     comparison.compatibility[k].breed2)
            /\ DOMAIN comparison.weight = {"breed1", "breed2"}
            /\ comparison.weight.breed1 = weightOf(dog1)
            /\ comparison.weight.breed2 = weightOf(dog2)
(***************************************************************************)
(* Properties of the domain checks                                         *)
(***************************************************************************)
\* The unit of a getDogsByWeightRange call is a string outside the alias
\* table (aliases are matched after trimming and case-folding)
UnknownUnit ==
    /\ call.op = "getDogsByWeightRange"
    /\ call.args[3].t = "string"
    /\ FoldedUnitOfCall \notin KilogramAliases \cup PoundAliases

\* The key of a getDogsByCompatibility call is not one of the three keys
UnknownKey ==
    /\ call.op = "getDogsByCompatibility"
    /\ ~(/\ call.args[1].t = "string"
         /\ call.args[1].v \in {<<"c","h","i","l","d","r","e","n">>,
                                 <<"o","t","h","e","r","D","o","g","s">>,
                                 <<"c","a","t","s">>})

NonBooleanValue ==
    /\ call.op = "getDogsByCompatibility"
    /\ call.args[2].t # "boolean"

\* The maxDistance of a fuzzySearchBreeds call is supplied and is negative
\* or not a number
BadMaxDistance ==
    /\ call.op = "fuzzySearchBreeds"
    /\ call.args[2].t # "undefined"
    /\ (call.args[2].t = "number" => call.args[2].v < 0)

\* C19: getDogsByWeightRange fails for every unit string outside the alias
\* table, getDogsByCompatibility for every key outside {children,
\* otherDogs, cats} and every non-boolean value, fuzzySearchBreeds for a
\* negative or non-numeric maxDistance; each with an error and no records.
C19_DomainInvalidRejected ==
    (UnknownUnit \/ UnknownKey \/ NonBooleanValue \/ BadMaxDistance) =>
        /\ ret.kind = "throw"
        /\ ret.error \in {"TypeError", "NonEmptyStringError"}
        /\ ret.value = NULL
        /\ (UnknownUnit /\ call.args[1].t = "number" /\ call.args[2].t = "number")
               => ret.message = validateUnit(Str(<<"?">>)).message
        /\ UnknownKey => ret.message = validateCompatibilityKey(Undefined).message
        /\ (NonBooleanValue /\ ~UnknownKey)
               => ret.message = "Compatibility value must be a boolean"
        /\ (BadMaxDistance /\ ~NotANonEmptyString(call.args[1]))
               => ret.error = "TypeError"

\* A search with a valid term and a negative maxDistance fails on a catalog
\* of records.
C19_Witness ==
    /\ BadMaxDistance
    /\ call.args[2].t = "number"
    /\ ~NotANonEmptyString(call.args[1])
    /\ \A i \in DOMAIN dogBreeds : dogBreeds[i].t = "object"
    /\ ret.kind = "throw"
    /\ ret.message = "maxDistance must be a non-negative number"
(***************************************************************************)
(* Properties of calls followed statement by statement                     *)
(***************************************************************************)
\* The step-by-step outcome of a call is the outcome of the operation
StepsAgreeWithCalls ==
    pc = "done" =>
        CASE call.op = "compareBreeds" ->
                 ret = compareBreeds(call.args[1], call.args[2])
          [] call.op = "getDogsByWeightRange" ->
                 ret = getDogsByWeightRange(call.args[1], call.args[2], call.args[3])
          [] call.op = "fuzzySearchBreeds" ->
                 ret = fuzzySearchBreeds(call.args[1], call.args[2])

\* The name of a catalog entry after trimming and case-folding
EntryName(i) ==
    toLowerCase(trim(IF dogBreeds[i].t = "string" THEN dogBreeds[i].v
                     ELSE dogBreeds[i].name.v))

\* argument is a non-empty string that resolves to no catalog entry: no
\* entry name contains it or is contained in it
Unresolved(argument) ==
    /\ ~NotANonEmptyString(argument)
    /\ \A i \in DOMAIN dogBreeds :
           /\ ~includes(EntryName(i), toLowerCase(trim(argument.v)))
           /\ ~includes(toLowerCase(trim(argument.v)), EntryName(i))

\* A compareBreeds call whose first name resolves to no record has ended
FirstUnresolved ==
    /\ call.op = "compareBreeds"
    /\ pc = "done"
    /\ Unresolved(call.args[1])

\* The statements executed so far
StepsTaken == {frame.steps[k] : k \in DOMAIN frame.steps}

\* C16 as stated: compareBreeds(x, y) with x resolving to no record raises
\* a not-found error naming x without evaluating y: y is neither validated
\* nor looked up before that error.
C16_Original ==
    FirstUnresolved =>
        /\ ret = NotFound(call.args[1])
        /\ StepsTaken \cap {"validate2", "lookup2"} = {}

\* C16 amended: with x resolving to no record, both names are validated and
\* both are looked up before the first is tested; a y that is a non-empty
\* string gives the not-found error naming x whatever y resolves to, and
\* any other y gives the NonEmptyStringError of the second name.
C16_BothEvaluatedFirst ==
    FirstUnresolved =>
        IF NotANonEmptyString(call.args[2])
        THEN /\ ret.error = "NonEmptyStringError"
             /\ ret.message = "Breed 2"
             /\ frame.steps = <<"validate1", "validate2">>
        ELSE /\ ret = NotFound(call.args[1])
             /\ frame.steps = <<"validate1", "validate2", "lookup1", "lookup2", "check1">>

\* The first name resolves to nothing, the second to a record: the error
\* names the first after both were looked up.
C16_Witness ==
    /\ FirstUnresolved
    /\ ~NotANonEmptyString(call.args[2])
    /\ frame.dog2 # NULL
    /\ ret.kind = "throw"
    /\ ret.error = "Error"
    /\ "lookup2" \in StepsTaken

\* Some argument of the call is invalid
InvalidArgument ==
    \/ /\ call.op = "compareBreeds"
       /\ \E k \in 1..2 : NotANonEmptyString(call.args[k])
    \/ /\ call.op = "getDogsByWeightRange"
       /\ \/ call.args[1].t # "number"
          \/ call.args[2].t # "number"
          \/ call.args[3].t \notin {"undefined", "string"}
          \/ UnknownUnit
    \/ /\ call.op = "fuzzySearchBreeds"
       /\ NotANonEmptyString(call.args[1]) \/ BadMaxDistance

ValidationSteps ==
    {"validate1", "validate2", "validateRange", "validateUnit", "validateTerm",
     "validateMaxDistance"}

SingleRecordLookups == {"getDogBreedData", "getDogBreedOrigin", "isValidDogBreed"}

\* A single-record lookup was called with a non-empty name
LookupOfName ==
    /\ call.op \in SingleRecordLookups
    /\ ~NotANonEmptyString(call.args[1])

\* No catalog entry matches the name, in the mode of the call
ResolvesToNone == \A i \in DOMAIN dogBreeds : ~MatchesQuery(UsedName(i))

\* The absent result of each lookup
Absent ==
    [getDogBreedData |-> Return(NULL),
     getDogBreedOrigin |-> Return(Null),
     isValidDogBreed |-> Return(Bool(FALSE))]

\* C21: a single-record lookup given a non-empty name that resolves to no
\* record returns its absent result (null, null, false) and never raises;
\* a not-found error is raised only by compareBreeds.
C21_AbsentNotRaised ==
    /\ LookupOfName => ret.kind = "return"
    /\ (LookupOfName /\ ResolvesToNone) => ret = Absent[call.op]
    /\ (ret.kind = "throw" /\ ret.error = "Error") => call.op = "compareBreeds"

\* getDogBreedOrigin returns null for a name no record of a two-record
\* catalog matches.
C21_Witness ==
    /\ call.op = "getDogBreedOrigin"
    /\ LookupOfName
    /\ ResolvesToNone
    /\ Len(dogBreeds) = 2
    /\ ret = Return(Null)
(***************************************************************************)
(* Properties of the scalar field filters                                  *)
(***************************************************************************)
\* The record property each scalar field filter reads
FilteredField ==
    [getDogsBySize |-> "size",
     getDogsByEnergyLevel |-> "energyLevel",
     getDogsByTrainability |-> "trainability",
     getDogsByShedding |-> "shedding",
     getDogsByGroomingNeeds |-> "groomingNeeds"]

\* A scalar field filter was called with a non-empty string
ScalarFilterCalled ==
    /\ call.op \in DOMAIN FilteredField
    /\ ~NotANonEmptyString(call.args[1])

\* Record i stores a string for the filtered field that equals the
\* argument once both are trimmed and case-folded
FoldedEqual(i) ==
    /\ dogBreeds[i].t = "object"
    /\ dogBreeds[i][FilteredField[call.op]].t = "string"
    /\ toLowerCase(trim(dogBreeds[i][FilteredField[call.op]].v))
           = toLowerCase(trim(call.args[1].v))

\* C22: the scalar field filters return exactly the records whose field
\* equals the argument after trimming and case-folding both sides, with no
\* partial matching, in catalog order; records whose field is not a string
\* are excluded.
C22_ExactAfterNormalization ==
    ScalarFilterCalled =>
        /\ ret.kind = "return"
        /\ InCatalogOrder
        /\ \A i \in DOMAIN dogBreeds : Returned(i) <=> FoldedEqual(i)

\* getDogsByShedding with an argument in another case returns the record
\* that stores it and leaves out a record whose value only contains it.
C22_Witness ==
    /\ ScalarFilterCalled
    /\ call.op = "getDogsByShedding"
    /\ ret.kind = "return"
    /\ \E i, j \in DOMAIN dogBreeds :
           /\ Returned(i)
           /\ dogBreeds[i].shedding.v # call.args[1].v
           /\ ~Returned(j)
           /\ dogBreeds[j].t = "object"
           /\ includes(toLowerCase(dogBreeds[j].shedding.v),
                       toLowerCase(trim(call.args[1].v)))
(***************************************************************************)
(* Properties of levenshteinDistance                                       *)
(***************************************************************************)
DistanceCalled == call.op = "levenshteinDistance"

\* The strings one single-character deletion, substitution or insertion
\* away from s (a shortest edit script can delete first and insert last, so
\* it never needs a string longer than the longer of its two ends)
OneEdit(s) ==
    {SubSeq(s, 1, k - 1) \o SubSeq(s, k + 1, Len(s)) : k \in 1..Len(s)}
        \cup {[s EXCEPT ![k] = c] : k \in 1..Len(s), c \in TermChars}
        \cup {t \in {SubSeq(s, 1, k) \o <<c>> \o SubSeq(s, k + 1, Len(s)) :
                        k \in 0..Len(s), c \in TermChars} :
                 Len(t) <= MaxDistanceLen}

\* The strings at most n edits away from the strings of S
RECURSIVE WithinEdits(_, _)
WithinEdits(S, n) ==
    IF n = 0 THEN S
    ELSE WithinEdits(S \cup UNION {OneEdit(s) : s \in S}, n - 1)

\* The least number of edits that transform a into b
EditDistance(a, b) ==
    CHOOSE n \in 0..(Len(a) + Len(b)) :
        /\ b \in WithinEdits({a}, n)
        /\ \A m \in 0..(n - 1) : b \notin WithinEdits({a}, m)

\* C23: levenshteinDistance(a, b) is the minimum number of single-character
\* insertions, deletions and substitutions that transform a into b.
C23_MinimumEdits ==
    DistanceCalled =>
        ret = Return(Num(EditDistance(call.args[1].v, call.args[2].v)))

\* Two non-empty strings of different lengths whose distance is more than
\* the difference of their lengths: a substitution is needed as well.
C23_Witness ==
    /\ DistanceCalled
    /\ call.args[1].v # <<>>
    /\ Len(call.args[1].v) < Len(call.args[2].v)
    /\ ret.value.v > Len(call.args[2].v) - Len(call.args[1].v)

\* C24: levenshteinDistance(a, a) = 0, levenshteinDistance(a, "") =
\* levenshteinDistance("", a) = length(a), and levenshteinDistance(a, b) =
\* levenshteinDistance(b, a).
C24_IdentityEmptySymmetry ==
    DistanceCalled =>
        LET a == call.args[1].v
            b == call.args[2].v
        IN  /\ a = b => ret.value.v = 0
            /\ b = <<>> => ret.value.v = Len(a)
            /\ a = <<>> => ret.value.v = Len(b)
            /\ ret.value.v = levenshteinDistance(b, a)

\* The distance of a string and a shorter non-empty one is the same in both
\* directions and is more than 1.
C24_Witness ==
    /\ DistanceCalled
    /\ call.args[2].v # <<>>
    /\ Len(call.args[2].v) < Len(call.args[1].v)
    /\ ret.value.v = levenshteinDistance(call.args[2].v, call.args[1].v)
    /\ ret.value.v > 1
(***************************************************************************)
(* Properties relating exact and fuzzy lookup                              *)
(***************************************************************************)
\* The outcome of the lookup of the call with fuzzy matching enabled
FuzzyLookupOfCall ==
    getDogBreedData(call.args[1], [call.args[2] EXCEPT !.fuzzy = Bool(TRUE)])

\* C25: whenever getDogBreedData(q, {fuzzy: false, lang}) returns the
\* record at position i, getDogBreedData(q, {fuzzy: true, lang}) returns a
\* record at some position j <= i, never null.
C25_FuzzyNotLater ==
    (FindReturned /\ ~FuzzyOfCall /\ ret.value # NULL) =>
        /\ FuzzyLookupOfCall.kind = "return"
        /\ FuzzyLookupOfCall.value # NULL
        /\ FuzzyLookupOfCall.value <= ret.value

\* The exact lookup returns the second record while the fuzzy lookup
\* returns the first, a different record.
C25_Witness ==
    /\ FindReturned
    /\ ~FuzzyOfCall
    /\ ret.value = 2
    /\ FuzzyLookupOfCall.value = 1
    /\ UsedName(1) # UsedName(2)

\* ---------------------------------------------------------------------
\* Monotonicity of fuzzySearchBreeds in maxDistance (SpecSearch)
\* ---------------------------------------------------------------------

\* The result of the same search with the smaller maxDistance d1
SearchWith(d1) == fuzzySearchBreeds(call.args[1], Num(d1))

\* The index of record i in the result list r (0 when it is not returned)
IndexIn(r, i) ==
    IF \E k \in DOMAIN r : r[k] = i
    THEN CHOOSE k \in DOMAIN r : r[k] = i
    ELSE 0

\* The number of leading substring matches of a result list r
SubstringPrefixLen(r) == Cardinality({k \in DOMAIN r : Contained(r[k])})

\* C26: fuzzySearchBreeds is monotone in maxDistance: for every term and
\* 0 <= d1 <= d2, every record returned for d1 is also returned for d2,
\* the substring-pass prefix is identical for both, and the records of the
\* d1 fuzzy suffix keep their relative order in the d2 result.
C26_MonotoneInMaxDistance ==
    SearchReturned =>
        \A d1 \in 0..MaxDistanceOfCall :
            LET s1 == SearchWith(d1)
                r1 == s1.value
                r2 == ret.value
                p1 == SubstringPrefixLen(r1)
                p2 == SubstringPrefixLen(r2)
            IN  /\ s1.kind = "return"
                /\ \A k \in DOMAIN r1 : IndexIn(r2, r1[k]) # 0
                /\ p1 = p2
                /\ SubSeq(r1, 1, p1) = SubSeq(r2, 1, p2)
                /\ \A j, k \in (p1 + 1)..Len(r1) :
                        j < k => IndexIn(r2, r1[j]) < IndexIn(r2, r1[k])

\* A search with maxDistance 2 that returns two fuzzy matches for
\* maxDistance 1 and one more, at distance 2 and earlier in the catalog,
\* for maxDistance 2
C26_Witness ==
    /\ SearchReturned
    /\ MaxDistanceOfCall = 2
    /\ Len(SearchWith(1).value) = SubstringPrefixLen(ret.value) + 2
    /\ Len(ret.value) = Len(SearchWith(1).value) + 1
    /\ \E k \in DOMAIN ret.value :
            /\ Dist(ret.value[k]) = 2
            /\ ~Contained(ret.value[k])
            /\ \E j \in DOMAIN ret.value :
                    /\ ~Contained(ret.value[j])
                    /\ Dist(ret.value[j]) = 1
                    /\ ret.value[k] < ret.value[j]
====
